---- MODULE Spec2Model ----
(***************************************************************************)
(* Model of the URL tracker's Domain Store (src/domain_manager.py) and of  *)
(* the persistence layer it writes through (src/data_manager.py).          *)
(*                                                                         *)
(* Strings are sequences of one-character strings, so that normalisation,  *)
(* URL parsing and the host pattern are computed character by character.   *)
(* Timestamps (datetime.now().isoformat()) are readings of a logical       *)
(* clock `now`; the clock never runs backwards but two readings may be     *)
(* equal.  Python's None is the value None.                                *)
(***************************************************************************)
EXTENDS Integers, Sequences, FiniteSets, TLC

(***************************************************************************)
(* Bounds of the model.                                                    *)
(***************************************************************************)
\* Config.MAX_DOMAINS is 10 (src/config.py:26); DomainManager copies it to
\* self.max_domains.  The model runs the store with a smaller maximum.
max_domains == 2
\* the clock is read as 0..MaxTime
MaxTime == 1
\* the entities of the store hold at most MaxChecks check results between them
MaxChecks == 2

\* time.time() is read as 0, ClockStep, 2 * ClockStep, ... up to MaxClock
MaxClock == 450
\* at most MaxCalls calls of check_domain_simple are begun
MaxCalls == 3
\* check_multiple_domains is given at most MaxEntities entities
MaxEntities == 2
\* start_monitoring creates at most MaxThreads threads
MaxThreads == 3
\* the strings _normalize_url is applied to are made of at most MaxParts parts
MaxParts == 3
\* a request is redirected at most MaxHops times
MaxHops == 2
\* at most MaxRuns runs that check every entity are begun
MaxRuns == 5

None == -1

(***************************************************************************)
(* Characters and string helpers.                                          *)
(***************************************************************************)
LowerLetters ==
    {"a","b","c","d","e","f","g","h","i","j","k","l","m",
     "n","o","p","q","r","s","t","u","v","w","x","y","z"}
UpperLetters ==
    {"A","B","C","D","E","F","G","H","I","J","K","L","M",
     "N","O","P","Q","R","S","T","U","V","W","X","Y","Z"}
Digits == {"0","1","2","3","4","5","6","7","8","9"}
Alnum == LowerLetters \cup UpperLetters \cup Digits

HTTP  == <<"h","t","t","p",":","/","/">>
HTTPS == <<"h","t","t","p","s",":","/","/">>

\* str.startswith(prefix)
startswith(s, prefix) ==
    /\ Len(s) >= Len(prefix)
    /\ SubSeq(s, 1, Len(prefix)) = prefix

\* str.rstrip('/')
RECURSIVE rstrip_slash(_)
rstrip_slash(s) ==
    IF s # <<>> /\ s[Len(s)] = "/"
    THEN rstrip_slash(SubSeq(s, 1, Len(s) - 1))
    ELSE s

\* str.find(c) for a set of characters: the first index holding one of cs, 0 if none
find_first(s, cs, from) ==
    LET hits == {i \in from..Len(s) : s[i] \in cs}
    IN  IF hits = {} THEN 0 ELSE CHOOSE i \in hits : \A j \in hits : i <= j

(***************************************************************************)
(* DomainInfo._normalize_url                                               *)
(***************************************************************************)
normalize_url(url) ==
    IF url = <<>> THEN url
    ELSE LET stripped == rstrip_slash(url)
         IN  IF startswith(stripped, HTTP) \/ startswith(stripped, HTTPS)
             THEN stripped
             ELSE HTTPS \o stripped

(***************************************************************************)
(* urllib.parse.urlparse as validate_domain uses it: the scheme and the    *)
(* network location of the URL.  ok = FALSE stands for the ValueError      *)
(* ("Invalid IPv6 URL") raised on an unbalanced bracket in the netloc.     *)
(***************************************************************************)
SchemeChars == Alnum \cup {"+", "-", "."}

Lower(c) ==
    IF c \in UpperLetters
    THEN CHOOSE l \in LowerLetters :
           \E k \in 1..26 :
             /\ <<"A","B","C","D","E","F","G","H","I","J","K","L","M",
                  "N","O","P","Q","R","S","T","U","V","W","X","Y","Z">>[k] = c
             /\ <<"a","b","c","d","e","f","g","h","i","j","k","l","m",
                  "n","o","p","q","r","s","t","u","v","w","x","y","z">>[k] = l
    ELSE c

urlparse(url) ==
    LET i == find_first(url, {":"}, 1)
        hasScheme == /\ i > 1
                     /\ url[1] \in LowerLetters \cup UpperLetters
                     /\ \A k \in 1..(i - 1) : url[k] \in SchemeChars
        scheme == IF hasScheme THEN [k \in 1..(i - 1) |-> Lower(url[k])] ELSE <<>>
        rest == IF hasScheme THEN SubSeq(url, i + 1, Len(url)) ELSE url
        hasNetloc == startswith(rest, <<"/", "/">>)
        d == find_first(rest, {"/", "?", "#"}, 3)
        delim == IF d = 0 THEN Len(rest) + 1 ELSE d
        netloc == IF hasNetloc THEN SubSeq(rest, 3, delim - 1) ELSE <<>>
        chars == {netloc[k] : k \in 1..Len(netloc)}
    IN  [ok     |-> ~ (("[" \in chars) # ("]" \in chars)),
         scheme |-> scheme,
         netloc |-> netloc]

(***************************************************************************)
(* The host pattern of validate_domain,                                    *)
(*   ^L(\.L)*$  with  L = [a-zA-Z0-9]([a-zA-Z0-9\-]{0,61}[a-zA-Z0-9])?     *)
(* matched from the left over the labels between the dots.                 *)
(***************************************************************************)
match_label(l) ==
    /\ Len(l) >= 1
    /\ Len(l) <= 63
    /\ l[1] \in Alnum
    /\ l[Len(l)] \in Alnum
    /\ \A k \in 1..Len(l) : l[k] \in Alnum \cup {"-"}

RECURSIVE match_domain_pattern(_)
match_domain_pattern(netloc) ==
    LET dot == find_first(netloc, {"."}, 1)
    IN  IF dot = 0
        THEN match_label(netloc)
        ELSE /\ match_label(SubSeq(netloc, 1, dot - 1))
             /\ match_domain_pattern(SubSeq(netloc, dot + 1, Len(netloc)))

\* DOMAIN_VALIDATION_RULES
min_length == 4
max_length == 253
allowed_schemes == {<<"h","t","t","p">>, <<"h","t","t","p","s">>}
required_tld == TRUE

\* validate_domain without the check for a dot in the host
validate_domain_no_tld(url) ==
    IF url = <<>> THEN <<FALSE, "empty">>
    ELSE
    LET normalized_url == normalize_url(url)
        parsed == urlparse(normalized_url)
    IN  IF Len(normalized_url) < min_length THEN <<FALSE, "too_short">>
        ELSE IF Len(normalized_url) > max_length THEN <<FALSE, "too_long">>
        ELSE IF ~ parsed.ok THEN <<FALSE, "invalid_format">>
        ELSE IF parsed.scheme \notin allowed_schemes THEN <<FALSE, "unsupported_scheme">>
        ELSE IF parsed.netloc = <<>> THEN <<FALSE, "missing_netloc">>
        ELSE IF ~ match_domain_pattern(parsed.netloc) THEN <<FALSE, "bad_pattern">>
        ELSE <<TRUE, "valid">>

(***************************************************************************)
(* DomainManager.validate_domain: <<is_valid, message>>                    *)
(***************************************************************************)
validate_domain(url) ==
    IF url = <<>> THEN <<FALSE, "empty">>
    ELSE
    LET normalized_url == normalize_url(url)
        parsed == urlparse(normalized_url)
    IN  IF Len(normalized_url) < min_length THEN <<FALSE, "too_short">>
        ELSE IF Len(normalized_url) > max_length THEN <<FALSE, "too_long">>
        ELSE IF ~ parsed.ok THEN <<FALSE, "invalid_format">>
        ELSE IF parsed.scheme \notin allowed_schemes THEN <<FALSE, "unsupported_scheme">>
        ELSE IF parsed.netloc = <<>> THEN <<FALSE, "missing_netloc">>
        ELSE IF ~ match_domain_pattern(parsed.netloc) THEN <<FALSE, "bad_pattern">>
        ELSE IF required_tld /\ "." \notin {parsed.netloc[k] : k \in 1..Len(parsed.netloc)}
             THEN <<FALSE, "missing_tld">>
        ELSE <<TRUE, "valid">>

(***************************************************************************)
(* DomainInfo: one tracked URL.                                            *)
(***************************************************************************)
\* DomainInfo.__init__, constructed when the clock reads t
DomainInfo(url, added_time, last_check, status, check_count, error_count, t) ==
    [url         |-> normalize_url(url),
     added_time  |-> IF added_time = None THEN t ELSE added_time,
     last_check  |-> last_check,
     status      |-> status,
     check_count |-> check_count,
     error_count |-> error_count]

\* DomainInfo.to_dict
to_dict(d) ==
    [url         |-> d.url,
     added_time  |-> d.added_time,
     last_check  |-> d.last_check,
     status      |-> d.status,
     check_count |-> d.check_count,
     error_count |-> d.error_count]

\* DomainInfo.from_dict; a key missing from the dictionary is modelled by the
\* default that data.get gives it
from_dict(data, t) ==
    DomainInfo(data.url, data.added_time, data.last_check, data.status,
               data.check_count, data.error_count, t)

\* update_check_result that does not count a failed check
update_check_result_uncounted(d, is_active, error_msg, t) ==
    IF is_active
    THEN [d EXCEPT !.last_check = t,
                   !.check_count = d.check_count + 1,
                   !.status = "active",
                   !.error_count = 0]
    ELSE [d EXCEPT !.last_check = t,
                   !.error_count = d.error_count + 1,
                   !.status = IF error_msg # "" THEN "error" ELSE "inactive"]

\* update_check_result that keeps the error count on success
update_check_result_keeps_errors(d, is_active, error_msg, t) ==
    [d EXCEPT !.last_check = t,
              !.check_count = d.check_count + 1,
              !.error_count = IF is_active THEN d.error_count ELSE d.error_count + 1,
              !.status = IF is_active THEN "active"
                         ELSE IF error_msg # "" THEN "error" ELSE "inactive"]

\* update_check_result that counts only the first failure in a row
update_check_result_first_error(d, is_active, error_msg, t) ==
    IF is_active
    THEN [d EXCEPT !.last_check = t,
                   !.check_count = d.check_count + 1,
                   !.status = "active",
                   !.error_count = 0]
    ELSE [d EXCEPT !.last_check = t,
                   !.check_count = d.check_count + 1,
                   !.error_count = IF d.error_count = 0 THEN 1 ELSE d.error_count,
                   !.status = IF error_msg # "" THEN "error" ELSE "inactive"]

\* DomainInfo.update_check_result; error_msg "" stands for None and for the
\* empty string, which the code does not tell apart
update_check_result(d, is_active, error_msg, t) ==
    IF is_active
    THEN [d EXCEPT !.last_check = t,
                   !.check_count = d.check_count + 1,
                   !.status = "active",
                   !.error_count = 0]
    ELSE [d EXCEPT !.last_check = t,
                   !.check_count = d.check_count + 1,
                   !.error_count = d.error_count + 1,
                   !.status = IF error_msg # "" THEN "error" ELSE "inactive"]

(***************************************************************************)
(* Sequence helpers for the list operations of DomainManager.              *)
(***************************************************************************)
\* list.remove of the object at index i
RemoveAt(s, i) == SubSeq(s, 1, i - 1) \o SubSeq(s, i + 1, Len(s))

\* s[:n]
Take(s, n) == SubSeq(s, 1, IF Len(s) < n THEN Len(s) ELSE n)

\* [domain.to_dict() for domain in self.domains]
dicts_of(ds) == [i \in 1..Len(ds) |-> to_dict(ds[i])]

\* [d.url for d in ds]
urls_of(ds) == [i \in 1..Len(ds) |-> ds[i].url]

(***************************************************************************)
(* State.                                                                  *)
(***************************************************************************)
VARIABLES
    domains,   \* DomainManager.domains: the ordered list of DomainInfo
    file,      \* domains.json: [ok |-> it parses, doc |-> the list it holds]
    now,       \* the clock behind datetime.now()
    call,      \* the call that has just returned, with its arguments and its
               \* result; Idle between calls
    history    \* history variable: the urls added since the store was empty,
               \* while nothing but successful adds of new urls has happened

\* NetworkChecker (src/network_checker.py)
VARIABLES
    check_cache, \* NetworkChecker.check_cache: url -> [result, timestamp], a
                 \* function whose domain is the set of keys of the dict
    clock,       \* the clock behind time.time(), in seconds
    threads,     \* the threads that run check_domain_simple: thread 0 calls it
                 \* directly, threads 1..max_workers are the pool of a
                 \* check_multiple_domains call; for each its position, the
                 \* url it checks and what the call returned
    many,        \* the check_multiple_domains call: its position, the urls
                 \* of its entities, the futures collected, its results
    calls,       \* the number of check_domain_simple calls begun so far
    done         \* history variable: the last call of check_domain_simple
                 \* that returned to thread 0, and whether the cache entry of
                 \* its url has been written since

\* DomainMonitor (src/network_checker.py)
VARIABLES
    is_monitoring,  \* DomainMonitor.is_monitoring
    monitor_thread, \* DomainMonitor.monitor_thread: the number of the thread
                    \* start_monitoring created last, 0 for None
    loops,          \* the threads that run _monitor_loop: for each its position
    ctl             \* the thread that calls start_monitoring and
                    \* stop_monitoring: where it is and what its call did

\* functions without state, called on their own
VARIABLES
    applied         \* the function applied last, its argument and its value

\* DomainMonitor._check_all_domains (src/network_checker.py)
VARIABLES
    iter            \* the iteration of the monitor loop: the step it is to
                    \* take next, the index of its for loop, the results of
                    \* check_multiple_domains, and (history) the steps it has
                    \* completed and what it found when it began

\* DomainTracker.shutdown (src/main.py)
VARIABLES
    sd              \* the thread that runs shutdown: the step it is to take
                    \* next, the steps that raised, and (history) the steps
                    \* it has taken

\* the threads that call the store (src/network_checker.py, src/gui_manager.py)
VARIABLES
    writers         \* for each thread: where it is inside an operation of the
                    \* store, and the list of dictionaries it is writing

\* the runs that check every entity (src/network_checker.py, src/gui_manager.py)
VARIABLES
    runs            \* for each thread that checks all entities: where its run
                    \* is and the results it holds; the number of runs begun;
                    \* and (history) for each url the number of network
                    \* probes that have failed since the last that succeeded

store_vars == <<domains, file, now, call, history>>
checker_vars == <<check_cache, clock, threads, many, calls, done>>
monitor_vars == <<is_monitoring, monitor_thread, loops, ctl>>

vars == <<domains, file, now, call, history,
          check_cache, clock, threads, many, calls, done,
          is_monitoring, monitor_thread, loops, ctl,
          applied, iter, sd, writers, runs>>

\* what the operations of one component leave alone
beside_store == <<checker_vars, monitor_vars, applied, iter, sd, writers, runs>>
beside_checker == <<store_vars, monitor_vars, applied, iter, sd, writers, runs>>
beside_monitor == <<store_vars, checker_vars, applied, iter, sd, writers, runs>>
beside_applied == <<store_vars, checker_vars, monitor_vars, iter, sd, writers, runs>>
beside_iteration == <<applied, sd, writers, runs>>
beside_shutdown == <<checker_vars, applied, iter, writers, runs>>
beside_writers == <<checker_vars, monitor_vars, applied, iter, sd, runs>>
beside_runs == <<now, call, history, threads, many, calls, done, monitor_vars,
                 applied, iter, sd, writers>>

\* find_domain that compares with the argument as given
find_domain_raw(ds, url) ==
    LET hits == {i \in 1..Len(ds) : ds[i].url = url}
    IN  IF hits = {} THEN 0 ELSE CHOOSE i \in hits : \A j \in hits : i <= j

\* DomainManager.find_domain: the index of the first entity whose url is the
\* normalised argument, 0 for None
find_domain(ds, url) ==
    LET normalized_url == normalize_url(url)
        hits == {i \in 1..Len(ds) : ds[i].url = normalized_url}
    IN  IF hits = {} THEN 0 ELSE CHOOSE i \in hits : \A j \in hits : i <= j

\* DomainManager.get_current_domain: the index of the current entity, 0 for None
get_current_domain(ds) == IF ds # <<>> THEN 1 ELSE 0

(***************************************************************************)
(* DataManager.save_domains.  The outcome of the write is an input:        *)
(*   "ok"          the document is written, returns True                   *)
(*   "open_fail"   open() raises, the file keeps its content, returns False*)
(*   "write_fail"  json.dump raises after open() truncated the file; what  *)
(*                 is left does not parse, returns False                   *)
(***************************************************************************)
SaveOutcomes == {"ok", "open_fail", "write_fail"}

\* a write that reports success and leaves the file as it was
save_domains_lost(f, data, outcome) ==
    CASE outcome = "ok"         -> f
      [] outcome = "open_fail"  -> f
      [] outcome = "write_fail" -> [ok |-> FALSE, doc |-> <<>>]

save_domains(f, data, outcome) ==
    CASE outcome = "ok"         -> [ok |-> TRUE, doc |-> data]
      [] outcome = "open_fail"  -> f
      [] outcome = "write_fail" -> [ok |-> FALSE, doc |-> <<>>]

\* the writes that fail are those that follow a write that succeeded: the
\* file holds the store when a write fails
CanSave(outcome) ==
    \/ outcome = "ok"
    \/ file = [ok |-> TRUE, doc |-> dicts_of(domains)]

\* a completed call: the operation, its arguments (url, is_active and
\* error_msg, n for a threshold or the number of an import document) and what
\* it returned: ok is the boolean (of a tuple, its first component), message
\* the second component of a tuple, urls a returned list.  For the
\* operations that return nothing about their save (cleanup_invalid), message
\* is what save_domains returned to them: "saved", "save_failed", or "" when
\* they did not call it
Call(op, url, is_active, error_msg, n, ok, message, urls) ==
    [op |-> op, url |-> url, is_active |-> is_active, error_msg |-> error_msg,
     n |-> n, ok |-> ok, message |-> message, urls |-> urls]

\* history: the store is empty
Fresh == [pure |-> TRUE, urls |-> <<>>]
\* history: something other than a successful add of a new url has happened
Tainted == [pure |-> FALSE, urls |-> <<>>]

\* history after an operation other than add
Other == history' = IF domains' = <<>> THEN Fresh ELSE Tainted

\* history after add_domain has gone past validation
Added(url, outcome) ==
    history' = IF /\ history.pure
                  /\ outcome = "ok"
                  /\ \A k \in 1..Len(history.urls) : history.urls[k] # normalize_url(url)
               THEN [history EXCEPT !.urls = Append(@, normalize_url(url))]
               ELSE Tainted

\* no call is running and the caller holds no result
Idle == Call("idle", <<>>, FALSE, "", 0, TRUE, "", <<>>)

\* the caller takes the result of the call and goes on
Resume ==
    /\ call # Idle
    /\ call' = Idle
    /\ UNCHANGED <<domains, file, now, history>>
    /\ UNCHANGED beside_store

\* sum of check_count over the store
RECURSIVE TotalChecks(_)
TotalChecks(ds) ==
    IF ds = <<>> THEN 0 ELSE Head(ds).check_count + TotalChecks(Tail(ds))

(***************************************************************************)
(* Inputs.                                                                 *)
(***************************************************************************)
\* DEFAULT_DOMAINS
DEFAULT_DOMAINS ==
    << HTTPS \o <<"w","w","w",".","k","8","w","4","w",".","c","o","m">>,
       HTTPS \o <<"w","w","w",".","z","6","r","0","j",".","c","o","m">> >>

A_CO == <<"a", ".", "c", "o">>
Label63 == [k \in 1..63 |-> "a"]
\* a host of four 63-character labels and a TLD: only its length is wrong
LongHost == Label63 \o <<".">> \o Label63 \o <<".">> \o Label63 \o <<".">>
            \o Label63 \o <<".", "c", "o">>

ValidInputs ==
    { A_CO \o <<"/">>, HTTPS \o A_CO, DEFAULT_DOMAINS[1], DEFAULT_DOMAINS[2] }

InvalidInputs ==
    { <<>>,                                   \* empty
      <<"/">>,                                \* normalises to https://, no host
      <<"a", "b">>,                           \* no dot
      <<"-">> \o A_CO,                        \* label starts with a hyphen
      <<"f", "t", "p", ":", "/", "/">> \o A_CO, \* another scheme
      <<"[">> \o A_CO,                        \* urlparse raises
      LongHost }                              \* longer than max_length

UrlInputs == ValidInputs \cup InvalidInputs

\* the urls remove_domain and update_domain_status are called with
LookupInputs == { A_CO, DEFAULT_DOMAINS[1], DEFAULT_DOMAINS[2], <<"/">> }

ErrorMsgs == {"", "timeout"}

\* an entry of an import document; raises = TRUE is an entry from_dict cannot
\* read (not a dictionary, or a url that is not a string)
Entry(url, added_time, last_check, status, check_count, error_count) ==
    [url |-> url, added_time |-> added_time, last_check |-> last_check,
     status |-> status, check_count |-> check_count,
     error_count |-> error_count, raises |-> FALSE]

BadEntry == [Entry(<<>>, None, None, "unknown", 0, 0) EXCEPT !.raises = TRUE]

\* the files import_domains is given: readable = FALSE is a file open() or
\* json.load fails on; has_domains = FALSE a document without the key.  The
\* timestamps in a document are not later than the clock read at Init
ImportDocs ==
    << [readable |-> FALSE, has_domains |-> FALSE, domains |-> <<>>],
       [readable |-> TRUE,  has_domains |-> FALSE, domains |-> <<>>],
       [readable |-> TRUE,  has_domains |-> TRUE,
        domains |-> << Entry(<<"/">>, None, None, "unknown", 0, 0),
                       Entry(<<"/">>, None, None, "unknown", 0, 0) >>],
       [readable |-> TRUE,  has_domains |-> TRUE,
        domains |-> << Entry(HTTPS \o A_CO, 0, 0, "error", 1, 1),
                       BadEntry,
                       Entry(DEFAULT_DOMAINS[1], 0, None, "unknown", 0, 0) >>] >>

(***************************************************************************)
(* NetworkChecker: constants and values.                                   *)
(***************************************************************************)
\* NetworkChecker.cache_duration, in seconds
cache_duration == 300
\* the clock is read at multiples of half the cache duration, so that an
\* entry is seen younger than, as old as, and older than cache_duration
ClockStep == cache_duration \div 2

\* check_multiple_domains(domains, max_workers = 3)
max_workers == 3

\* thread 0 calls check_domain_simple directly (a check or an add of the
\* GUI); threads 1..max_workers are the workers of the ThreadPoolExecutor
\* of check_multiple_domains
Workers == 1..max_workers
Threads == {0} \cup Workers

\* the urls that are checked
CheckUrls == {DEFAULT_DOMAINS[1], DEFAULT_DOMAINS[2]}

\* a final_url of None
NoUrl == <<>>

\* what session.head(url) does: a response with a status code (after the
\* redirects, redirected = response.history is not empty), or one of the
\* exceptions check_domain_simple names
ProbeOutcomes ==
    { [kind |-> "response", status_code |-> 399, redirected |-> TRUE],
      [kind |-> "response", status_code |-> 400, redirected |-> FALSE],
      [kind |-> "timeout", status_code |-> 0, redirected |-> FALSE],
      [kind |-> "connection_error", status_code |-> 0, redirected |-> FALSE],
      [kind |-> "request_exception", status_code |-> 0, redirected |-> FALSE],
      [kind |-> "exception", status_code |-> 0, redirected |-> FALSE] }

\* f"HTTP {response.status_code}"
http_message(status_code) ==
    CASE status_code = 399 -> "HTTP 399"
      [] status_code = 400 -> "HTTP 400"

\* the url the redirects of a response end at
redirect_target(url) == url \o <<"/", "x">>

\* the triple check_domain_simple returns
Triple(is_accessible, message, final_url) ==
    [is_accessible |-> is_accessible, message |-> message, final_url |-> final_url]

NoTriple == Triple(FALSE, "", NoUrl)

\* a thread: pc is "idle", "reading" (the url is a key of the cache and the
\* entry is about to be read), "probing" (session.head is in flight), "returned"
\* (check_domain_simple has returned ret) or "raised" (the future of a worker
\* holds an exception); task is the index of the entity a worker checks;
\* probed tells whether the call issued a network probe, and outcome how the
\* probe ended ("cached" when the cache answered, "" while there is none)
IdleThread ==
    [pc |-> "idle", url |-> NoUrl, ret |-> NoTriple, task |-> 0, probed |-> FALSE,
     outcome |-> ""]

\* no check_multiple_domains call is running
NoMany == [pc |-> "idle", domains |-> <<>>, submitted |-> {}, collected |-> {},
           results |-> <<>>]

\* history: no call has returned to thread 0
NoCall == [url |-> NoUrl, result |-> FALSE, timestamp |-> 0, fresh |-> FALSE]

\* no iteration of the monitor loop is running and none has run
NoIteration ==
    [pc |-> "idle", k |-> 0, results |-> <<>>, trace |-> <<>>,
     fetched |-> 0, expected |-> 0, checks |-> 0,
     file |-> [ok |-> TRUE, doc |-> <<>>]]

\* the threads that call the operations of the store while the program runs:
\* the monitor loop (_check_all_domains), the thread of the "check all"
\* button (ControlPanel.check_all_domains), the thread of the add dialog
\* (AddDomainDialog.add_domain) and the thread that adds the redirected
\* domains (ControlPanel.get_latest_domains)
StoreThreads == {"monitor", "gui_check", "gui_add", "gui_latest"}

\* the two threads that call add_domain
AddThreads == {"gui_add", "gui_latest"}

\* a thread that is in no operation of the store
Outside == [pc |-> "outside", data |-> <<>>]

\* the threads that check every entity: the monitor loop
\* (_check_all_domains) and the thread of the "check all" button
RunThreads == {"monitor", "gui_check"}

\* no run has begun and no probe has been made
NoRuns ==
    [pc      |-> [t \in RunThreads |-> "idle"],
     results |-> [t \in RunThreads |-> <<>>],
     begun   |-> 0,
     failed  |-> [u \in CheckUrls |-> 0]]

\* shutdown has not been called
NoShutdown == [pc |-> "running", raised |-> {}, trace |-> <<>>]

\* no function applied yet
NotApplied == [fn |-> "", arg |-> <<>>, ret |-> <<>>]

\* the parts the arguments of _normalize_url are made of: the two schemes,
\* a scheme in capitals, a slash and a letter
NormalizeParts ==
    { HTTP, HTTPS, <<"H","T","T","P",":","/","/">>, <<"/">>, <<"a">> }

RECURSIVE PartStrings(_)
PartStrings(n) ==
    IF n = 0 THEN { <<>> }
    ELSE LET shorter == PartStrings(n - 1)
         IN  shorter \cup { s \o p : s \in shorter, p \in NormalizeParts }

NormalizeInputs == PartStrings(MaxParts)

(***************************************************************************)
(* Init: the store a first start constructs (no domains.json yet):         *)
(* load_domains finds no data and _initialize_default_domains appends the  *)
(* default URLs and saves.                                                 *)
(***************************************************************************)
initialize_default_domains(t) ==
    [i \in 1..Len(DEFAULT_DOMAINS) |->
        DomainInfo(DEFAULT_DOMAINS[i], None, None, "unknown", 0, 0, t)]

Init ==
    /\ now = 0
    /\ domains = initialize_default_domains(0)
    /\ file = save_domains([ok |-> TRUE, doc |-> <<>>],
                           dicts_of(initialize_default_domains(0)), "ok")
    /\ call = Idle
    /\ history = Tainted
    /\ check_cache = <<>>
    /\ clock = 0
    /\ threads = [t \in Threads |-> IdleThread]
    /\ many = NoMany
    /\ calls = 0
    /\ done = NoCall
    /\ is_monitoring = FALSE
    /\ monitor_thread = 0
    /\ loops = [i \in 1..MaxThreads |-> "unborn"]
    /\ ctl = "idle"
    /\ applied = NotApplied
    /\ iter = NoIteration
    /\ sd = NoShutdown
    /\ writers = [t \in StoreThreads |-> Outside]
    /\ runs = NoRuns

\* the clock advances
Tick ==
    /\ call = Idle
    /\ now < MaxTime
    /\ now' = now + 1
    /\ UNCHANGED <<domains, file, call, history>>
    /\ UNCHANGED beside_store

(***************************************************************************)
(* DomainManager.add_domain                                                *)
(***************************************************************************)
\* add_domain that starts the count of an entity it re-adds again
add_domain_result_recounts(ds, url, t) ==
    LET new_domain == DomainInfo(url, None, None, "unknown", 0, 0, t)
        i == find_domain(ds, new_domain.url)
        inserted == IF i # 0
                    THEN <<[ds[i] EXCEPT !.added_time = t, !.check_count = 0]>> \o RemoveAt(ds, i)
                    ELSE <<new_domain>> \o ds
    IN  IF Len(inserted) > max_domains THEN Take(inserted, max_domains) ELSE inserted

\* add_domain without the cut to max_domains
add_domain_result_unbounded(ds, url, t) ==
    LET new_domain == DomainInfo(url, None, None, "unknown", 0, 0, t)
        i == find_domain(ds, new_domain.url)
    IN  IF i # 0
        THEN <<[ds[i] EXCEPT !.added_time = t]>> \o RemoveAt(ds, i)
        ELSE <<new_domain>> \o ds

\* add_domain that cuts the front of the list instead of its tail
add_domain_result_cuts_front(ds, url, t) ==
    LET new_domain == DomainInfo(url, None, None, "unknown", 0, 0, t)
        i == find_domain(ds, new_domain.url)
        inserted == IF i # 0
                    THEN <<[ds[i] EXCEPT !.added_time = t]>> \o RemoveAt(ds, i)
                    ELSE <<new_domain>> \o ds
    IN  IF Len(inserted) > max_domains
        THEN SubSeq(inserted, Len(inserted) - max_domains + 1, Len(inserted))
        ELSE inserted

\* add_domain that puts a new entity in the place of the one it found
add_domain_result_replaces(ds, url, t) ==
    LET new_domain == DomainInfo(url, None, None, "unknown", 0, 0, t)
        i == find_domain(ds, new_domain.url)
        inserted == IF i # 0
                    THEN <<new_domain>> \o RemoveAt(ds, i)
                    ELSE <<new_domain>> \o ds
    IN  IF Len(inserted) > max_domains THEN Take(inserted, max_domains) ELSE inserted

add_domain_result(ds, url, t) ==
    LET new_domain == DomainInfo(url, None, None, "unknown", 0, 0, t)
        i == find_domain(ds, new_domain.url)
        inserted == IF i # 0
                    THEN <<[ds[i] EXCEPT !.added_time = t]>> \o RemoveAt(ds, i)
                    ELSE <<new_domain>> \o ds
    IN  IF Len(inserted) > max_domains THEN Take(inserted, max_domains) ELSE inserted

\* validate_domain on the inputs, evaluated once
validated == [u \in UrlInputs |-> validate_domain(u)]

add_domain(url, outcome) ==
    LET v == validated[url]
    IN  /\ call = Idle
        /\ UNCHANGED beside_store
        /\ IF ~ v[1]
           THEN /\ outcome = "ok"
                /\ call' = Call("add", url, FALSE, "", 0, FALSE, v[2], <<>>)
                /\ UNCHANGED <<domains, file, now, history>>
           ELSE /\ CanSave(outcome)
                /\ domains' = add_domain_result(domains, url, now)
                /\ file' = save_domains(file, dicts_of(domains'), outcome)
                /\ call' = Call("add", url, FALSE, "", 0, outcome = "ok",
                                 IF outcome = "ok" THEN "added" ELSE "save_failed", <<>>)
                /\ Added(url, outcome)
                /\ UNCHANGED now

(***************************************************************************)
(* DomainManager.remove_domain                                             *)
(***************************************************************************)
remove_domain(url, outcome) ==
    LET i == find_domain(domains, url)
    IN  /\ call = Idle
        /\ UNCHANGED beside_store
        /\ IF i = 0
           THEN /\ outcome = "ok"
                /\ call' = Call("remove", url, FALSE, "", 0, FALSE, "", <<>>)
                /\ UNCHANGED <<domains, file, now>>
                /\ Other
           ELSE /\ CanSave(outcome)
                /\ file' = save_domains(file, dicts_of(RemoveAt(domains, i)), outcome)
                /\ domains' = IF outcome = "ok"
                              THEN RemoveAt(domains, i)
                              ELSE Append(RemoveAt(domains, i), domains[i])
                /\ call' = Call("remove", url, FALSE, "", 0, outcome = "ok", "", <<>>)
                /\ Other
                /\ UNCHANGED now

(***************************************************************************)
(* DomainManager.update_domain_status                                      *)
(***************************************************************************)
update_domain_status(url, is_active, error_msg, outcome) ==
    LET i == find_domain(domains, url)
    IN  /\ call = Idle
        /\ UNCHANGED beside_store
        /\ IF i = 0
           THEN /\ outcome = "ok"
                /\ call' = Call("update_status", url, is_active, error_msg, 0, FALSE, "", <<>>)
                /\ UNCHANGED <<domains, file, now>>
                /\ Other
           ELSE /\ CanSave(outcome)
                /\ TotalChecks(domains) < MaxChecks
                /\ domains' = [domains EXCEPT
                                 ![i] = update_check_result(domains[i], is_active, error_msg, now)]
                /\ file' = save_domains(file, dicts_of(domains'), outcome)
                /\ call' = Call("update_status", url, is_active, error_msg, 0, outcome = "ok", "", <<>>)
                /\ Other
                /\ UNCHANGED now

(***************************************************************************)
(* DomainManager.cleanup_invalid_domains                                   *)
(***************************************************************************)
CleanupThresholds == 0..MaxChecks

\* cleanup that spares an entity whose error_count is exactly the threshold
cleanup_keeps_at_threshold(d, max_error_count) == ~ (d.error_count > max_error_count)

cleanup_keeps(d, max_error_count) == ~ (d.error_count >= max_error_count)

cleanup_invalid_domains(max_error_count, outcome) ==
    LET to_remove == SelectSeq(domains, LAMBDA d : ~ cleanup_keeps(d, max_error_count))
        kept == SelectSeq(domains, LAMBDA d : cleanup_keeps(d, max_error_count))
    IN  /\ call = Idle
        /\ UNCHANGED beside_store
        /\ domains' = kept
        /\ IF to_remove # <<>>
           THEN /\ CanSave(outcome)
                /\ file' = save_domains(file, dicts_of(kept), outcome)
           ELSE /\ outcome = "ok"
                /\ UNCHANGED file
        /\ call' = Call("cleanup_invalid", <<>>, FALSE, "", max_error_count, TRUE,
                         IF to_remove = <<>> THEN ""
                         ELSE IF outcome = "ok" THEN "saved" ELSE "save_failed",
                         urls_of(to_remove))
        /\ Other
        /\ UNCHANGED now

(***************************************************************************)
(* DomainManager.sort_domains_by_priority: list.sort (stable) by the key   *)
(* (priority, -added_time).                                                *)
(***************************************************************************)
\* sort key that ranks error before inactive
priority_error_first(d) ==
    CASE d.status = "active"   -> 0
      [] d.status = "unknown"  -> 1
      [] d.status = "inactive" -> 3
      [] OTHER                 -> 2

priority(d) ==
    CASE d.status = "active"   -> 0
      [] d.status = "unknown"  -> 1
      [] d.status = "inactive" -> 2
      [] OTHER                 -> 3

sort_key(d) == <<priority(d), 0 - d.added_time>>

key_le(a, b) == \/ a[1] < b[1]
                \/ a[1] = b[1] /\ a[2] <= b[2]

\* insert d behind every element whose key is not greater than its own
RECURSIVE insert_sorted(_, _)
insert_sorted(s, d) ==
    IF s = <<>> THEN <<d>>
    ELSE IF key_le(sort_key(s[Len(s)]), sort_key(d))
         THEN Append(s, d)
         ELSE Append(insert_sorted(SubSeq(s, 1, Len(s) - 1), d), s[Len(s)])

RECURSIVE stable_sort(_)
stable_sort(s) ==
    IF s = <<>> THEN <<>>
    ELSE insert_sorted(stable_sort(SubSeq(s, 1, Len(s) - 1)), s[Len(s)])

sort_domains_by_priority(outcome) ==
    /\ call = Idle
    /\ UNCHANGED beside_store
    /\ CanSave(outcome)
    /\ domains' = stable_sort(domains)
    /\ file' = save_domains(file, dicts_of(domains'), outcome)
    /\ call' = Call("sort_by_priority", <<>>, FALSE, "", 0, TRUE, "", <<>>)
    /\ Other
    /\ UNCHANGED now

(***************************************************************************)
(* DomainManager.import_domains                                            *)
(***************************************************************************)
\* the loop over data['domains']: an entry is appended unless find_domain
\* finds its url; an entry that raises is skipped
RECURSIVE import_entries(_, _, _)
import_entries(ds, entries, t) ==
    IF entries = <<>> THEN ds
    ELSE LET e == Head(entries)
             domain == from_dict(e, t)
         IN  IF e.raises THEN import_entries(ds, Tail(entries), t)
             ELSE IF find_domain(ds, domain.url) = 0
                  THEN import_entries(Append(ds, domain), Tail(entries), t)
                  ELSE import_entries(ds, Tail(entries), t)

import_domains_result(ds, entries, t) ==
    LET merged == import_entries(ds, entries, t)
    IN  IF Len(merged) > max_domains THEN Take(merged, max_domains) ELSE merged

import_domains(n, outcome) ==
    LET data == ImportDocs[n]
    IN  /\ call = Idle
        /\ UNCHANGED beside_store
        /\ IF ~ data.readable
           THEN /\ outcome = "ok"
                /\ call' = Call("import", <<>>, FALSE, "", n, FALSE, "import_failed", <<>>)
                /\ UNCHANGED <<domains, file, now>>
                /\ Other
           ELSE IF ~ data.has_domains
           THEN /\ outcome = "ok"
                /\ call' = Call("import", <<>>, FALSE, "", n, FALSE, "invalid_format", <<>>)
                /\ UNCHANGED <<domains, file, now>>
                /\ Other
           ELSE /\ CanSave(outcome)
                /\ domains' = import_domains_result(domains, data.domains, now)
                /\ file' = save_domains(file, dicts_of(domains'), outcome)
                /\ call' = Call("import", <<>>, FALSE, "", n, TRUE, "imported", <<>>)
                /\ Other
                /\ UNCHANGED now

(***************************************************************************)
(* DomainManager.export_domains.  The document is built before the file is *)
(* opened; building it reads Config.APP_VERSION, and an attribute the      *)
(* class Config does not have raises AttributeError, which the method      *)
(* catches to return False.  written = FALSE is a write of the export file *)
(* that raises.  The store is not touched.                                 *)
(***************************************************************************)
\* the attributes of the class Config
Config ==
    {"APP_NAME", "VERSION", "DATA_DIR", "DOMAINS_FILE", "CONFIG_FILE", "LOG_FILE",
     "MAX_DOMAINS", "REQUEST_TIMEOUT", "CHECK_INTERVAL", "RETRY_ATTEMPTS",
     "MAX_RETRIES", "RETRY_DELAY", "USER_AGENT", "HEADERS",
     "WINDOW_WIDTH", "WINDOW_HEIGHT", "WINDOW_MIN_WIDTH", "WINDOW_MIN_HEIGHT",
     "TRAY_ICON_SIZE", "TRAY_ICON_COLOR", "TRAY_ICON_BG_COLOR",
     "LOG_LEVEL", "LOG_FORMAT", "LOG_MAX_SIZE", "LOG_BACKUP_COUNT"}

\* a path that holds no document json.load can read
NoDocument == [readable |-> FALSE, has_domains |-> FALSE, domains |-> <<>>]

\* what the export path holds after export_domains, when nothing was there
export_document(ds, written) ==
    IF "APP_VERSION" \notin Config \/ ~ written
    THEN NoDocument
    ELSE [readable |-> TRUE, has_domains |-> TRUE,
          domains |-> [i \in 1..Len(ds) |->
                         Entry(to_dict(ds[i]).url, to_dict(ds[i]).added_time,
                               to_dict(ds[i]).last_check, to_dict(ds[i]).status,
                               to_dict(ds[i]).check_count, to_dict(ds[i]).error_count)]]

export_domains(written) ==
    /\ call = Idle
    /\ call' = Call("export", <<>>, FALSE, "", 0,
                     export_document(domains, written).readable, "", <<>>)
    /\ UNCHANGED <<domains, file, now, history>>
    /\ UNCHANGED beside_store

(***************************************************************************)
(* NetworkChecker: the result cache.                                       *)
(***************************************************************************)
\* _is_cache_valid that takes no entry
is_cache_valid_never(cache, url, t) == FALSE

\* _is_cache_valid that takes only an entry written at this very time
is_cache_valid_now(cache, url, t) ==
    /\ url \in DOMAIN cache
    /\ t - cache[url].timestamp < 1

\* _is_cache_valid at time t
is_cache_valid(cache, url, t) ==
    /\ url \in DOMAIN cache
    /\ t - cache[url].timestamp < cache_duration

\* _cache_result that keeps the timestamp of an entry it overwrites
cache_result_keeps_stamp(cache, url, result, t) ==
    (url :> [result |-> result,
             timestamp |-> IF url \in DOMAIN cache THEN cache[url].timestamp ELSE t])
    @@ cache

\* _cache_result at time t
cache_result(cache, url, result, t) ==
    (url :> [result |-> result, timestamp |-> t]) @@ cache

\* cleanup_cache at time t: the dict without its expired keys
cleanup_cache_result(cache, t) ==
    LET expired_keys == {url \in DOMAIN cache : t - cache[url].timestamp > cache_duration}
    IN  [url \in (DOMAIN cache) \ expired_keys |-> cache[url]]

(***************************************************************************)
(* NetworkChecker.check_domain_simple, in the steps other threads can run  *)
(* between:                                                                *)
(*   BeginCall   _is_cache_valid tests `url not in self.check_cache`       *)
(*   ReadCache   the entry is read (self.check_cache[url]) and its age     *)
(*               compared with cache_duration; a fresh entry is returned,  *)
(*               otherwise session.head is called.  An entry that          *)
(*               cleanup_cache has deleted since the test raises KeyError, *)
(*               which the method's `except Exception` turns into a cached *)
(*               and returned failure                                      *)
(*   FinishCall  the request comes back or raises; the result is cached    *)
(*               and returned                                              *)
(***************************************************************************)
\* check_domain_simple that hands the url back as final_url when the
\* request raised
simple_result_keeps_url(url, outcome) ==
    CASE outcome.kind = "response" ->
           Triple(outcome.status_code < 400, http_message(outcome.status_code),
                  IF outcome.redirected THEN redirect_target(url) ELSE url)
      [] outcome.kind = "timeout" -> Triple(FALSE, "timeout_error", url)
      [] outcome.kind = "connection_error" -> Triple(FALSE, "network_error", url)
      [] outcome.kind = "request_exception" -> Triple(FALSE, "request_exception", url)
      [] outcome.kind = "exception" -> Triple(FALSE, "unknown_error", url)

\* the triple returned on a probe outcome
simple_result(url, outcome) ==
    CASE outcome.kind = "response" ->
           Triple(outcome.status_code < 400, http_message(outcome.status_code),
                  IF outcome.redirected THEN redirect_target(url) ELSE url)
      [] outcome.kind = "timeout" -> Triple(FALSE, "timeout_error", NoUrl)
      [] outcome.kind = "connection_error" -> Triple(FALSE, "network_error", NoUrl)
      [] outcome.kind = "request_exception" -> Triple(FALSE, "request_exception", NoUrl)
      [] outcome.kind = "exception" -> Triple(FALSE, "unknown_error", NoUrl)

\* history: the call of thread t has returned result, read from or written
\* to the cache entry of url when written is true
Returned(t, url, result, cache, written) ==
    done' = IF t = 0
            THEN [url |-> url, result |-> result,
                  timestamp |-> cache[url].timestamp, fresh |-> TRUE]
            ELSE IF written /\ url = done.url
                 THEN [done EXCEPT !.fresh = FALSE]
                 ELSE done

BeginCall(t, url, task) ==
    /\ threads[t].pc = "idle"
    /\ threads' = [threads EXCEPT ![t] =
                     [pc |-> IF url \in DOMAIN check_cache THEN "reading" ELSE "probing",
                      url |-> url, ret |-> NoTriple, task |-> task,
                      probed |-> url \notin DOMAIN check_cache, outcome |-> ""]]
    /\ UNCHANGED <<check_cache, clock, done>>

ReadCache(t) ==
    LET url == threads[t].url
    IN  /\ threads[t].pc = "reading"
        /\ IF url \notin DOMAIN check_cache
           THEN /\ check_cache' = cache_result(check_cache, url, FALSE, clock)
                /\ threads' = [threads EXCEPT
                                 ![t].pc = "returned",
                                 ![t].ret = Triple(FALSE, "unknown_error", NoUrl),
                                 ![t].outcome = "exception"]
                /\ Returned(t, url, FALSE, check_cache', TRUE)
           ELSE IF is_cache_valid(check_cache, url, clock)
           THEN /\ threads' = [threads EXCEPT
                                 ![t].pc = "returned",
                                 ![t].ret = Triple(check_cache[url].result, "cached", NoUrl),
                                 ![t].outcome = "cached"]
                /\ Returned(t, url, check_cache[url].result, check_cache, FALSE)
                /\ UNCHANGED check_cache
           ELSE /\ threads' = [threads EXCEPT ![t].pc = "probing", ![t].probed = TRUE]
                /\ UNCHANGED <<check_cache, done>>
        /\ UNCHANGED <<clock, many, calls>>
        /\ UNCHANGED beside_checker

FinishCall(t, outcome) ==
    LET url == threads[t].url
        ret == simple_result(url, outcome)
    IN  /\ threads[t].pc = "probing"
        /\ check_cache' = cache_result(check_cache, url, ret.is_accessible, clock)
        /\ threads' = [threads EXCEPT ![t].pc = "returned", ![t].ret = ret,
                                      ![t].outcome = outcome.kind]
        /\ Returned(t, url, ret.is_accessible, check_cache', TRUE)
        /\ UNCHANGED <<clock, many, calls>>
        /\ UNCHANGED beside_checker

\* thread 0 calls check_domain_simple(url)
check_domain_simple(url) ==
    /\ calls < MaxCalls
    /\ calls' = calls + 1
    /\ BeginCall(0, url, 0)
    /\ UNCHANGED many
    /\ UNCHANGED beside_checker

\* thread 0 goes on with the triple it was returned
caller_resumes ==
    /\ threads[0].pc = "returned"
    /\ threads' = [threads EXCEPT ![0] = IdleThread]
    /\ UNCHANGED <<check_cache, clock, many, calls, done>>
    /\ UNCHANGED beside_checker

(***************************************************************************)
(* NetworkChecker.check_multiple_domains.  The executor queues one         *)
(* check_domain_simple task per entity, in the order of the list; a worker *)
(* that is free takes the next task; as_completed hands the futures to the *)
(* caller in the order they complete.                                      *)
(***************************************************************************)
\* the lists of entities (their urls) check_multiple_domains is given
ManyInputs ==
    {<<>>} \cup
    {input \in UNION {[1..n -> CheckUrls] : n \in 1..MaxEntities} :
        \A i, j \in 1..Len(input) : i # j => input[i] # input[j]}

\* results[domain.url] = value only for the urls that are accessible
store_result_accessible(results, url, value) ==
    IF value[1] THEN (url :> value) @@ results ELSE results

\* results[domain.url] = value
store_result(results, url, value) == (url :> value) @@ results

check_multiple_domains(input) ==
    /\ many.pc = "idle"
    /\ calls + Len(input) <= MaxCalls
    /\ calls' = calls + Len(input)
    /\ many' = IF input = <<>>
               THEN [NoMany EXCEPT !.pc = "returned"]
               ELSE [NoMany EXCEPT !.pc = "collecting", !.domains = input]
    /\ UNCHANGED <<check_cache, clock, threads, done>>
    /\ UNCHANGED beside_checker

\* the workers are interchangeable: the free worker that takes the next
\* task is the free worker with the lowest number
FirstFree(w) == \A v \in Workers : threads[v].pc = "idle" => w <= v

\* a free worker takes the next task of the queue and begins its call
worker_runs(w) ==
    LET waiting == (1..Len(many.domains)) \ many.submitted
        i == CHOOSE k \in waiting : \A j \in waiting : k <= j
    IN  /\ many.pc = "collecting"
        /\ waiting # {}
        /\ FirstFree(w)
        /\ BeginCall(w, many.domains[i], i)
        /\ many' = [many EXCEPT !.submitted = @ \cup {i}]
        /\ UNCHANGED calls
        /\ UNCHANGED beside_checker

\* the future of the next task ends with an exception instead of a triple
\* (what the except clause around future.result() catches)
future_raises(w) ==
    LET waiting == (1..Len(many.domains)) \ many.submitted
        i == CHOOSE k \in waiting : \A j \in waiting : k <= j
    IN  /\ many.pc = "collecting"
        /\ waiting # {}
        /\ FirstFree(w)
        /\ threads[w].pc = "idle"
        /\ threads' = [threads EXCEPT ![w] =
                         [IdleThread EXCEPT !.pc = "raised", !.url = many.domains[i],
                                            !.task = i]]
        /\ many' = [many EXCEPT !.submitted = @ \cup {i}]
        /\ UNCHANGED <<check_cache, clock, calls, done>>
        /\ UNCHANGED beside_checker

\* as_completed yields the future of worker w; its result is stored
future_collected(w) ==
    LET value == IF threads[w].pc = "returned"
                 THEN <<threads[w].ret.is_accessible, threads[w].ret.message>>
                 ELSE <<FALSE, "check_exception">>
    IN  /\ many.pc = "collecting"
        /\ threads[w].pc \in {"returned", "raised"}
        /\ many' = [many EXCEPT
                       !.collected = @ \cup {threads[w].task},
                       !.results = store_result(@, many.domains[threads[w].task], value)]
        /\ threads' = [threads EXCEPT ![w] = IdleThread]
        /\ UNCHANGED <<check_cache, clock, calls, done>>
        /\ UNCHANGED beside_checker

\* every future has been collected: check_multiple_domains returns results
many_returns ==
    /\ many.pc = "collecting"
    /\ many.collected = 1..Len(many.domains)
    /\ many' = [many EXCEPT !.pc = "returned"]
    /\ UNCHANGED <<check_cache, clock, threads, calls, done>>
    /\ UNCHANGED beside_checker

\* the caller of check_multiple_domains goes on with the mapping
many_resumes ==
    /\ many.pc = "returned"
    /\ many' = NoMany
    /\ UNCHANGED <<check_cache, clock, threads, calls, done>>
    /\ UNCHANGED beside_checker

\* NetworkChecker.cleanup_cache
cleanup_cache ==
    /\ check_cache' = cleanup_cache_result(check_cache, clock)
    /\ check_cache' # check_cache
    /\ UNCHANGED <<clock, threads, many, calls, done>>
    /\ UNCHANGED beside_checker

\* time passes
AdvanceClock ==
    /\ clock + ClockStep <= MaxClock
    /\ clock' = clock + ClockStep
    /\ UNCHANGED <<check_cache, threads, many, calls, done>>
    /\ UNCHANGED beside_checker

NextChecker ==
    \/ AdvanceClock
    \/ \E url \in CheckUrls : check_domain_simple(url)
    \/ \E t \in Threads : ReadCache(t)
    \/ \E t \in Threads, outcome \in ProbeOutcomes : FinishCall(t, outcome)
    \/ caller_resumes
    \/ \E input \in ManyInputs : check_multiple_domains(input)
    \/ \E w \in Workers : worker_runs(w)
    \/ \E w \in Workers : future_raises(w)
    \/ \E w \in Workers : future_collected(w)
    \/ many_returns
    \/ many_resumes
    \/ cleanup_cache

SpecChecker == Init /\ [][NextChecker]_vars

(***************************************************************************)
(* DomainMonitor.  A loop thread is "unborn", "testing" (at the test of    *)
(* `while self.is_monitoring`), "iterating" (in _check_all_domains),       *)
(* "sleeping" (time.sleep(check_interval) after an iteration),             *)
(* "backing_off" (time.sleep(60) after an iteration that raised) or        *)
(* "exited".  The controlling thread is "idle" between calls; after a call *)
(* ctl tells what the call did until the thread goes on.                   *)
(***************************************************************************)
Alive(i) == loops[i] \in {"testing", "iterating", "sleeping", "backing_off"}

start_monitoring ==
    /\ ctl = "idle"
    /\ IF is_monitoring
       THEN /\ ctl' = "start_ignored"
            /\ UNCHANGED <<is_monitoring, monitor_thread, loops>>
       ELSE /\ \E i \in 1..MaxThreads : loops[i] = "unborn"
            /\ LET i == CHOOSE k \in 1..MaxThreads :
                           /\ loops[k] = "unborn"
                           /\ \A j \in 1..MaxThreads : loops[j] = "unborn" => k <= j
               IN  /\ is_monitoring' = TRUE
                   /\ monitor_thread' = i
                   /\ loops' = [loops EXCEPT ![i] = "testing"]
                   /\ ctl' = "started"
    /\ UNCHANGED beside_monitor

\* stop_monitoring up to the join: the flag is cleared
stop_monitoring ==
    /\ ctl = "idle"
    /\ is_monitoring' = FALSE
    /\ ctl' = IF monitor_thread # 0 THEN "joining" ELSE "stopped"
    /\ UNCHANGED <<monitor_thread, loops>>
    /\ UNCHANGED beside_monitor

\* monitor_thread.join(timeout=5) returns: the thread has ended, or 5 s have
\* passed while it sleeps or is inside an iteration
join_returns ==
    /\ ctl = "joining"
    /\ loops[monitor_thread] \in {"exited", "iterating", "sleeping", "backing_off"}
    /\ ctl' = "stopped"
    /\ UNCHANGED <<is_monitoring, monitor_thread, loops>>
    /\ UNCHANGED beside_monitor

\* the controlling thread goes on after a call
ctl_resumes ==
    /\ ctl \in {"started", "start_ignored", "stopped"}
    /\ ctl' = "idle"
    /\ UNCHANGED <<is_monitoring, monitor_thread, loops>>
    /\ UNCHANGED beside_monitor

\* a loop that never looks at the flag
loop_tests_ignores_flag(i) ==
    /\ loops[i] = "testing"
    /\ loops' = [loops EXCEPT ![i] = "iterating"]
    /\ UNCHANGED <<is_monitoring, monitor_thread, ctl>>
    /\ UNCHANGED beside_monitor

\* _monitor_loop: the test of `while self.is_monitoring`
loop_tests(i) ==
    /\ loops[i] = "testing"
    /\ loops' = [loops EXCEPT ![i] = IF is_monitoring THEN "iterating" ELSE "exited"]
    /\ UNCHANGED <<is_monitoring, monitor_thread, ctl>>
    /\ UNCHANGED beside_monitor

\* a loop without the except clause: an iteration that raises ends the thread
loop_iterates_unguarded(i, raised) ==
    /\ loops[i] = "iterating"
    /\ loops' = [loops EXCEPT ![i] = IF raised THEN "exited" ELSE "sleeping"]
    /\ UNCHANGED <<is_monitoring, monitor_thread, ctl>>
    /\ UNCHANGED beside_monitor

\* _monitor_loop: _check_all_domains returns, or raises an Exception
loop_iterates(i, raised) ==
    /\ loops[i] = "iterating"
    /\ loops' = [loops EXCEPT ![i] = IF raised THEN "backing_off" ELSE "sleeping"]
    /\ UNCHANGED <<is_monitoring, monitor_thread, ctl>>
    /\ UNCHANGED beside_monitor

\* _monitor_loop: time.sleep returns
loop_wakes(i) ==
    /\ loops[i] \in {"sleeping", "backing_off"}
    /\ loops' = [loops EXCEPT ![i] = "testing"]
    /\ UNCHANGED <<is_monitoring, monitor_thread, ctl>>
    /\ UNCHANGED beside_monitor

NextMonitor ==
    \/ start_monitoring
    \/ stop_monitoring
    \/ join_returns
    \/ ctl_resumes
    \/ \E i \in 1..MaxThreads : loop_tests(i)
    \/ \E i \in 1..MaxThreads, raised \in BOOLEAN : loop_iterates(i, raised)
    \/ \E i \in 1..MaxThreads : loop_wakes(i)

SpecMonitor == Init /\ [][NextMonitor]_vars

\* every loop thread is scheduled, every sleep ends, and every iteration ends
\* (each request has a timeout): a loop thread that can take a step takes it
MonitorFairness ==
    \A i \in 1..MaxThreads :
        /\ WF_vars(loop_tests(i))
        /\ WF_vars(\E raised \in BOOLEAN : loop_iterates(i, raised))
        /\ WF_vars(loop_wakes(i))

SpecMonitorLive == Init /\ [][NextMonitor]_vars /\ MonitorFairness

(***************************************************************************)
(* DomainMonitor._check_all_domains, the iteration of the monitor loop, in *)
(* its steps.  iter.pc names the step the thread takes next:               *)
(*   "idle"             not in an iteration                                *)
(*   "check_many"       network_checker.check_multiple_domains(domains)    *)
(*   "update_status"    domain_manager.update_domain_status for the entity *)
(*                      at index iter.k of the for loop                    *)
(*   "cleanup_invalid"  domain_manager.cleanup_invalid_domains()           *)
(*   "sort_by_priority" domain_manager.sort_domains_by_priority()          *)
(*   "cache_purge"      network_checker.cleanup_cache()                    *)
(*   "return"           _check_all_domains returns to _monitor_loop        *)
(* The iteration calls the operations of the store and of the checker      *)
(* above: an operation runs while iter.pc names it, and the thread goes on *)
(* to its next step when the operation has returned.  While an iteration   *)
(* runs no other thread uses the store.                                    *)
(***************************************************************************)
\* cleanup_invalid_domains(max_error_count: int = 5)
default_max_error_count == 5

InIteration == monitor_thread # 0 /\ loops[monitor_thread] = "iterating"

\* the for loop: the first index from k on whose entity has a result, or
\* Len(ds) + 1
next_with_result(ds, results, k) ==
    LET hits == {j \in k..Len(ds) : ds[j].url \in DOMAIN results}
    IN  IF hits = {} THEN Len(ds) + 1 ELSE CHOOSE j \in hits : \A h \in hits : j <= h

\* an iteration that sorts before it cleans up
next_step_sorts_first(step, more) ==
    CASE step \in {"check_many", "update_status"} ->
            IF more THEN "update_status" ELSE "sort_by_priority"
      [] step = "sort_by_priority" -> "cleanup_invalid"
      [] step = "cleanup_invalid" -> "cache_purge"
      [] step = "cache_purge" -> "return"

\* the step that follows a step; more: the for loop has an entity left
next_step(step, more) ==
    CASE step \in {"check_many", "update_status"} ->
            IF more THEN "update_status" ELSE "cleanup_invalid"
      [] step = "cleanup_invalid" -> "sort_by_priority"
      [] step = "sort_by_priority" -> "cache_purge"
      [] step = "cache_purge" -> "return"

\* domains = self.domain_manager.domains; if not domains: return
iteration_fetches ==
    /\ InIteration
    /\ iter.pc = "idle"
    /\ call = Idle
    /\ many.pc = "idle"
    /\ iter' = [pc |-> IF domains = <<>> THEN "return" ELSE "check_many",
                k |-> 0, results |-> <<>>, trace |-> <<>>,
                fetched |-> Len(domains), expected |-> 0,
                checks |-> TotalChecks(domains), file |-> file]
    /\ UNCHANGED <<store_vars, checker_vars, monitor_vars, beside_iteration>>

\* results = self.network_checker.check_multiple_domains(domains): the call
iteration_checks ==
    /\ InIteration
    /\ iter.pc = "check_many"
    /\ check_multiple_domains(urls_of(domains))

\* check_multiple_domains has returned: the thread holds the results
iteration_takes_results ==
    /\ InIteration
    /\ iter.pc = "check_many"
    /\ many.pc = "returned"
    /\ many' = NoMany
    /\ LET k == next_with_result(domains, many.results, 1)
       IN  iter' = [iter EXCEPT
                      !.results = many.results,
                      !.k = k,
                      !.expected = Cardinality({j \in 1..Len(domains) :
                                                  domains[j].url \in DOMAIN many.results}),
                      !.trace = Append(@, "check_many"),
                      !.pc = next_step("check_many", k <= Len(domains))]
    /\ UNCHANGED <<check_cache, clock, threads, calls, done>>
    /\ UNCHANGED <<store_vars, monitor_vars, beside_iteration>>

\* self.domain_manager.update_domain_status(domain.url, is_accessible,
\*                                          None if is_accessible else message)
iteration_updates(outcome) ==
    /\ InIteration
    /\ iter.pc = "update_status"
    /\ LET url == domains[iter.k].url
           result == iter.results[url]
       IN  update_domain_status(url, result[1], IF result[1] THEN "" ELSE result[2],
                                outcome)

\* removed = self.domain_manager.cleanup_invalid_domains()
iteration_cleans(outcome) ==
    /\ InIteration
    /\ iter.pc = "cleanup_invalid"
    /\ cleanup_invalid_domains(default_max_error_count, outcome)

\* self.domain_manager.sort_domains_by_priority()
iteration_sorts(outcome) ==
    /\ InIteration
    /\ iter.pc = "sort_by_priority"
    /\ sort_domains_by_priority(outcome)

\* the operation of the store has returned: the thread goes on
iteration_resumes ==
    /\ InIteration
    /\ call # Idle
    /\ call.op = iter.pc
    /\ call' = Idle
    /\ LET k == IF call.op = "update_status"
                THEN next_with_result(domains, iter.results, iter.k + 1)
                ELSE iter.k
       IN  iter' = [iter EXCEPT
                      !.k = k,
                      !.trace = Append(@, call.op),
                      !.pc = next_step(call.op, k <= Len(domains))]
    /\ UNCHANGED <<domains, file, now, history>>
    /\ UNCHANGED <<checker_vars, monitor_vars, beside_iteration>>

\* self.network_checker.cleanup_cache()
iteration_purges ==
    /\ InIteration
    /\ iter.pc = "cache_purge"
    /\ check_cache' = cleanup_cache_result(check_cache, clock)
    /\ iter' = [iter EXCEPT !.trace = Append(@, "cache_purge"),
                            !.pc = next_step("cache_purge", FALSE)]
    /\ UNCHANGED <<clock, threads, many, calls, done>>
    /\ UNCHANGED <<store_vars, monitor_vars, beside_iteration>>

\* _check_all_domains returns; _monitor_loop sleeps check_interval
iteration_returns ==
    /\ InIteration
    /\ iter.pc = "return"
    /\ loops' = [loops EXCEPT ![monitor_thread] = "sleeping"]
    /\ iter' = [iter EXCEPT !.trace = Append(@, "sleep"), !.pc = "idle"]
    /\ UNCHANGED <<is_monitoring, monitor_thread, ctl>>
    /\ UNCHANGED <<store_vars, checker_vars, beside_iteration>>

\* a step raises (the pool cannot start a thread, the cache changes size
\* while cleanup_cache walks it): _monitor_loop logs and sleeps 60 s
iteration_raises ==
    /\ InIteration
    /\ \/ iter.pc = "check_many" /\ many.pc = "idle"
       \/ iter.pc = "cache_purge"
    /\ loops' = [loops EXCEPT ![monitor_thread] = "backing_off"]
    /\ iter' = [iter EXCEPT !.trace = Append(@, "backoff"), !.pc = "idle"]
    /\ UNCHANGED <<is_monitoring, monitor_thread, ctl>>
    /\ UNCHANGED <<store_vars, checker_vars, beside_iteration>>

\* between two iterations the user removes an entity of the store
user_removes(url) ==
    /\ iter.pc = "idle"
    /\ find_domain(domains, url) # 0
    /\ remove_domain(url, "ok")

\* the user's call returns
user_resumes ==
    /\ iter.pc = "idle"
    /\ Resume

\* time passes while the loop thread sleeps
sleep_lasts ==
    /\ \E i \in 1..MaxThreads : loops[i] \in {"sleeping", "backing_off"}
    /\ AdvanceClock

NextIteration ==
    \/ start_monitoring
    \/ ctl_resumes
    \/ \E i \in 1..MaxThreads : loop_tests(i)
    \/ \E i \in 1..MaxThreads : loop_wakes(i)
    \/ iteration_fetches
    \/ iteration_checks
    \/ \E w \in Workers : worker_runs(w)
    \/ \E w \in Workers : future_raises(w)
    \/ \E t \in Workers : ReadCache(t)
    \/ \E t \in Workers, outcome \in ProbeOutcomes : FinishCall(t, outcome)
    \/ \E w \in Workers : future_collected(w)
    \/ many_returns
    \/ iteration_takes_results
    \/ \E outcome \in SaveOutcomes : iteration_updates(outcome)
    \/ \E outcome \in SaveOutcomes : iteration_cleans(outcome)
    \/ \E outcome \in SaveOutcomes : iteration_sorts(outcome)
    \/ iteration_resumes
    \/ iteration_purges
    \/ iteration_returns
    \/ iteration_raises
    \/ \E url \in CheckUrls : user_removes(url)
    \/ user_resumes
    \/ sleep_lasts

SpecIteration == Init /\ [][NextIteration]_vars

(***************************************************************************)
(* The monitor that is started once and stopped while its loop runs: the   *)
(* steps of the iteration with stop_monitoring called at any moment.       *)
(***************************************************************************)
\* DomainTracker.start: the one start_monitoring call of a run of the program
monitor_starts ==
    /\ monitor_thread = 0
    /\ start_monitoring

NextStop ==
    \/ monitor_starts
    \/ stop_monitoring
    \/ join_returns
    \/ ctl_resumes
    \/ \E i \in 1..MaxThreads : loop_tests(i)
    \/ \E i \in 1..MaxThreads : loop_wakes(i)
    \/ iteration_fetches
    \/ iteration_checks
    \/ \E w \in Workers : worker_runs(w)
    \/ \E t \in Workers : ReadCache(t)
    \/ \E t \in Workers, outcome \in ProbeOutcomes : FinishCall(t, outcome)
    \/ \E w \in Workers : future_collected(w)
    \/ many_returns
    \/ iteration_takes_results
    \/ iteration_updates("ok")
    \/ iteration_cleans("ok")
    \/ iteration_sorts("ok")
    \/ iteration_resumes
    \/ iteration_purges
    \/ iteration_returns
    \/ \E url \in CheckUrls : user_removes(url)
    \/ user_resumes
    \/ sleep_lasts

SpecStop == Init /\ [][NextStop]_vars

(***************************************************************************)
(* DomainTracker.shutdown, in its steps.  sd.pc names the step the thread  *)
(* takes next:                                                             *)
(*   "running"   shutdown has not been called                              *)
(*   "health"    safe_execute(self.health_checker.stop_monitoring)         *)
(*   "monitor"   safe_execute(self.domain_monitor.stop_monitoring)         *)
(*   "persist"   safe_execute(self.domain_manager.save_domains)            *)
(*   "destroy"   safe_execute(self.main_window.destroy)                    *)
(*   "exit"      finally: os._exit(0)                                      *)
(*   "exited"    the process has ended; no thread takes a step             *)
(* A step that raises is caught by safe_execute, whose handler             *)
(* (ExceptionHandler.handle_exception) catches what it raises itself.      *)
(***************************************************************************)
\* shutdown whose steps are not wrapped: a step that raises leaves the try
\* block for the finally clause
shutdown_next_unwrapped(step, raised) ==
    IF raised THEN "exit"
    ELSE CASE step = "health"  -> "monitor"
           [] step = "monitor" -> "persist"
           [] step = "persist" -> "destroy"
           [] step = "destroy" -> "exit"

\* the step that follows a step, which has raised or not
shutdown_next(step, raised) ==
    CASE step = "health"  -> "monitor"
      [] step = "monitor" -> "persist"
      [] step = "persist" -> "destroy"
      [] step = "destroy" -> "exit"

\* sd after the step sd.pc
ShutdownAfter(raised) ==
    [pc |-> shutdown_next(sd.pc, raised),
     raised |-> IF raised THEN sd.raised \cup {sd.pc} ELSE sd.raised,
     trace |-> Append(sd.trace, sd.pc)]

Running == sd.pc # "exited"

\* shutdown is called: self.running = False
shutdown ==
    /\ sd.pc = "running"
    /\ ctl = "idle"
    /\ sd' = [sd EXCEPT !.pc = "health"]
    /\ UNCHANGED <<store_vars, monitor_vars, beside_shutdown>>

\* HealthChecker.stop_monitoring returns or raises
shutdown_stops_health(raised) ==
    /\ sd.pc = "health"
    /\ sd' = ShutdownAfter(raised)
    /\ UNCHANGED <<store_vars, monitor_vars, beside_shutdown>>

\* DomainMonitor.stop_monitoring is called
shutdown_stops_monitor ==
    /\ sd.pc = "monitor"
    /\ stop_monitoring

\* the join of DomainMonitor.stop_monitoring returns
shutdown_joins ==
    /\ sd.pc = "monitor"
    /\ join_returns

\* DomainMonitor.stop_monitoring has returned, or its join raises
shutdown_monitor_stopped(raised) ==
    /\ sd.pc = "monitor"
    /\ ctl = IF raised THEN "joining" ELSE "stopped"
    /\ ctl' = "idle"
    /\ sd' = ShutdownAfter(raised)
    /\ UNCHANGED <<is_monitoring, monitor_thread, loops>>
    /\ UNCHANGED <<store_vars, beside_shutdown>>

\* DomainManager.save_domains: it returns True or False, it does not raise
shutdown_persists(outcome) ==
    /\ sd.pc = "persist"
    /\ file' = save_domains(file, dicts_of(domains), outcome)
    /\ sd' = ShutdownAfter(FALSE)
    /\ UNCHANGED <<domains, now, call, history>>
    /\ UNCHANGED <<monitor_vars, beside_shutdown>>

\* MainWindow.destroy returns or raises
shutdown_destroys(raised) ==
    /\ sd.pc = "destroy"
    /\ sd' = ShutdownAfter(raised)
    /\ UNCHANGED <<store_vars, monitor_vars, beside_shutdown>>

\* finally: os._exit(0)
shutdown_exits ==
    /\ sd.pc = "exit"
    /\ sd' = [sd EXCEPT !.pc = "exited", !.trace = Append(@, "exit")]
    /\ UNCHANGED <<store_vars, monitor_vars, beside_shutdown>>

\* DomainTracker.start: safe_execute(self.domain_monitor.start_monitoring)
tracker_starts ==
    /\ sd.pc = "running"
    /\ ~ is_monitoring
    /\ start_monitoring

tracker_started ==
    /\ sd.pc = "running"
    /\ ctl_resumes

\* the loop thread runs until the process ends
monitor_tests(i) ==
    /\ Running
    /\ loop_tests(i)

monitor_iterates(i, raised) ==
    /\ Running
    /\ loop_iterates(i, raised)

monitor_wakes(i) ==
    /\ Running
    /\ loop_wakes(i)

NextShutdown ==
    \/ tracker_starts
    \/ tracker_started
    \/ \E i \in 1..MaxThreads : monitor_tests(i)
    \/ \E i \in 1..MaxThreads, raised \in BOOLEAN : monitor_iterates(i, raised)
    \/ \E i \in 1..MaxThreads : monitor_wakes(i)
    \/ shutdown
    \/ \E raised \in BOOLEAN : shutdown_stops_health(raised)
    \/ shutdown_stops_monitor
    \/ shutdown_joins
    \/ \E raised \in BOOLEAN : shutdown_monitor_stopped(raised)
    \/ \E outcome \in SaveOutcomes : shutdown_persists(outcome)
    \/ \E raised \in BOOLEAN : shutdown_destroys(raised)
    \/ shutdown_exits

SpecShutdown == Init /\ [][NextShutdown]_vars

\* the thread that runs shutdown is scheduled and each of its steps ends:
\* the joins are bounded (timeout=5), the write returns
ShutdownFairness ==
    /\ WF_vars(\E raised \in BOOLEAN : shutdown_stops_health(raised))
    /\ WF_vars(shutdown_stops_monitor)
    /\ WF_vars(\E raised \in BOOLEAN : shutdown_monitor_stopped(raised))
    /\ WF_vars(shutdown_joins)
    /\ WF_vars(\E outcome \in SaveOutcomes : shutdown_persists(outcome))
    /\ WF_vars(\E raised \in BOOLEAN : shutdown_destroys(raised))
    /\ WF_vars(shutdown_exits)

SpecShutdownLive == Init /\ [][NextShutdown]_vars /\ ShutdownFairness

(***************************************************************************)
(* The operations of the store as the threads of the program run them.     *)
(* update_domain_status and add_domain change the list and then hand       *)
(* [domain.to_dict() for domain in self.domains] to                        *)
(* data_manager.save_domains, which opens domains.json for writing and     *)
(* dumps the list.  No statement of either method, and none of their       *)
(* callers, takes a lock or waits for another thread: a thread is          *)
(*   "outside"   in no operation of the store                              *)
(*   "mutated"   it has changed the list and is about to write             *)
(*   "writing"   it has built the list of dictionaries and opened the file *)
(*               (which open(..., 'w') truncates)                          *)
(* When two threads write, the file holds what the one that finishes last  *)
(* has dumped.                                                             *)
(***************************************************************************)
\* the thread of _check_all_domains or of check_all_domains applies a result
writer_updates(t, url, is_active) ==
    LET i == find_domain(domains, url)
    IN  /\ t \in {"monitor", "gui_check"}
        /\ writers[t].pc = "outside"
        /\ i # 0
        /\ TotalChecks(domains) < MaxChecks
        /\ domains' = [domains EXCEPT
                         ![i] = update_check_result(domains[i], is_active,
                                                    IF is_active THEN "" ELSE "timeout_error",
                                                    now)]
        /\ writers' = [writers EXCEPT ![t].pc = "mutated"]
        /\ UNCHANGED <<file, now, call, history>>
        /\ UNCHANGED beside_writers

\* the thread of the add dialog adds a url that validate_domain accepts
writer_adds(t, url) ==
    /\ t = "gui_add"
    /\ writers[t].pc = "outside"
    /\ validated[url][1]
    /\ domains' = add_domain_result(domains, url, now)
    /\ writers' = [writers EXCEPT ![t].pc = "mutated"]
    /\ UNCHANGED <<file, now, call, history>>
    /\ UNCHANGED beside_writers

\* data_manager.save_domains([domain.to_dict() for domain in self.domains]):
\* the list is built and the file opened
writer_opens(t) ==
    /\ writers[t].pc = "mutated"
    /\ writers' = [writers EXCEPT ![t] = [pc |-> "writing", data |-> dicts_of(domains)]]
    /\ file' = [ok |-> FALSE, doc |-> <<>>]
    /\ UNCHANGED <<domains, now, call, history>>
    /\ UNCHANGED beside_writers

\* json.dump has written the list, the file is closed, the operation returns
writer_writes(t) ==
    /\ writers[t].pc = "writing"
    /\ file' = save_domains(file, writers[t].data, "ok")
    /\ writers' = [writers EXCEPT ![t] = Outside]
    /\ UNCHANGED <<domains, now, call, history>>
    /\ UNCHANGED beside_writers

\* what the add dialog is given: a url the store does not hold, and one it holds
AddUrls == {A_CO \o <<"/">>, DEFAULT_DOMAINS[1]}

(***************************************************************************)
(* DomainManager.add_domain in the steps another thread can run between:   *)
(*   adder_finds    validate_domain, DomainInfo(url), find_domain          *)
(*   adder_inserts  an existing entity is stamped, removed and inserted at *)
(*                  index 0 (list.remove raises ValueError when another    *)
(*                  thread has dropped it since; the thread's except       *)
(*                  clause ends the call); a new entity is inserted at 0   *)
(*   adder_trims    the list is cut to max_domains                         *)
(* and then the write, as writer_opens and writer_writes.                  *)
(***************************************************************************)
adder_finds(t, url) ==
    /\ t \in AddThreads
    /\ writers[t].pc = "outside"
    /\ validated[url][1]
    /\ writers' = [writers EXCEPT ![t] =
                      [pc |-> "found",
                       data |-> [url |-> normalize_url(url),
                                 existing |-> find_domain(domains, normalize_url(url)) # 0]]]
    /\ UNCHANGED <<domains, file, now, call, history>>
    /\ UNCHANGED beside_writers

adder_inserts(t) ==
    LET url == writers[t].data.url
        i == find_domain_raw(domains, url)
    IN  /\ writers[t].pc = "found"
        /\ IF writers[t].data.existing
           THEN IF i = 0
                THEN /\ writers' = [writers EXCEPT ![t] = Outside]
                     /\ UNCHANGED domains
                ELSE /\ domains' = <<[domains[i] EXCEPT !.added_time = now]>>
                                       \o RemoveAt(domains, i)
                     /\ writers' = [writers EXCEPT ![t] = [pc |-> "inserted", data |-> <<>>]]
           ELSE /\ domains' = <<DomainInfo(url, None, None, "unknown", 0, 0, now)>> \o domains
                /\ writers' = [writers EXCEPT ![t] = [pc |-> "inserted", data |-> <<>>]]
        /\ UNCHANGED <<file, now, call, history>>
        /\ UNCHANGED beside_writers

adder_trims(t) ==
    /\ writers[t].pc = "inserted"
    /\ domains' = IF Len(domains) > max_domains THEN Take(domains, max_domains) ELSE domains
    /\ writers' = [writers EXCEPT ![t].pc = "mutated"]
    /\ UNCHANGED <<file, now, call, history>>
    /\ UNCHANGED beside_writers

\* the UI thread removes an entity (DomainListFrame.delete_selected_domain)
ui_removes(url, outcome) ==
    /\ find_domain(domains, url) # 0
    /\ remove_domain(url, outcome)
    /\ call' # Idle

NextAdders ==
    \/ \E t \in AddThreads, url \in AddUrls : adder_finds(t, url)
    \/ \E t \in AddThreads : adder_inserts(t)
    \/ \E t \in AddThreads : adder_trims(t)
    \/ \E t \in AddThreads : writer_opens(t)
    \/ \E t \in AddThreads : writer_writes(t)
    \/ \E url \in CheckUrls : ui_removes(url, "ok")
    \/ Resume

SpecAdders == Init /\ [][NextAdders]_vars

NextWriters ==
    \/ \E t \in StoreThreads, url \in CheckUrls, is_active \in BOOLEAN :
            writer_updates(t, url, is_active)
    \/ \E t \in StoreThreads, url \in AddUrls : writer_adds(t, url)
    \/ \E t \in StoreThreads : writer_opens(t)
    \/ \E t \in StoreThreads : writer_writes(t)

SpecWriters == Init /\ [][NextWriters]_vars

(***************************************************************************)
(* DomainInfo._normalize_url applied to a string.                          *)
(***************************************************************************)
apply_normalize_url(url) ==
    /\ applied' = [fn |-> "_normalize_url", arg |-> url, ret |-> normalize_url(url)]
    /\ UNCHANGED beside_applied

(***************************************************************************)
(* The runs that check every entity: DomainMonitor._check_all_domains on   *)
(* the monitor thread and ControlPanel.check_all_domains on its own        *)
(* thread.  Both take the list of the store, call check_multiple_domains,  *)
(* apply every result with update_domain_status, then call                 *)
(* cleanup_invalid_domains() and sort_domains_by_priority(); the monitor   *)
(* ends with cleanup_cache.  A check_domain_simple call is one step here:  *)
(* a valid cache entry answers with the message "cached", otherwise the    *)
(* url is probed and the answer cached.                                    *)
(***************************************************************************)
\* check_domain_simple for the urls in turn: the cache after the calls
RECURSIVE cache_after(_, _, _, _)
cache_after(cache, urls, probe, t) ==
    IF urls = <<>> THEN cache
    ELSE cache_after(IF is_cache_valid(cache, Head(urls), t)
                     THEN cache
                     ELSE cache_result(cache, Head(urls), probe[Head(urls)], t),
                     Tail(urls), probe, t)

\* the result of check_domain_simple(url): (is_accessible, message)
run_result(cache, url, probe, t) ==
    IF is_cache_valid(cache, url, t)
    THEN [is_accessible |-> cache[url].result, message |-> "cached"]
    ELSE [is_accessible |-> probe[url],
          message |-> IF probe[url] THEN "HTTP 200" ELSE "timeout_error"]

\* the for loop over the list: update_domain_status for the urls in results
RECURSIVE apply_results(_, _, _, _)
apply_results(ds, results, k, t) ==
    IF k > Len(ds) THEN ds
    ELSE apply_results(
             IF ds[k].url \in DOMAIN results
             THEN [ds EXCEPT ![k] = update_check_result(
                                        ds[k], results[ds[k].url].is_accessible,
                                        IF results[ds[k].url].is_accessible
                                        THEN "" ELSE results[ds[k].url].message, t)]
             ELSE ds,
             results, k + 1, t)

\* domains = self.domain_manager.domains; check_multiple_domains(domains)
run_checks(t, probe) ==
    LET urls == urls_of(domains)
        probed == {u \in DOMAIN probe : \E k \in 1..Len(urls) :
                     urls[k] = u /\ ~ is_cache_valid(check_cache, u, clock)}
    IN  /\ runs.pc[t] = "idle"
        /\ runs.begun < MaxRuns
        /\ domains # <<>>
        /\ \A k \in 1..Len(urls) : urls[k] \in DOMAIN probe
        /\ check_cache' = cache_after(check_cache, urls, probe, clock)
        /\ runs' = [runs EXCEPT
                      !.pc[t] = "checked",
                      !.begun = @ + 1,
                      !.results[t] = [u \in {urls[k] : k \in 1..Len(urls)} |->
                                        run_result(check_cache, u, probe, clock)],
                      !.failed = [u \in DOMAIN @ |->
                                    IF u \in probed
                                    THEN IF probe[u] THEN 0 ELSE @[u] + 1
                                    ELSE @[u]]]
        /\ UNCHANGED <<domains, file, clock>>
        /\ UNCHANGED beside_runs

\* the loop of update_domain_status calls
run_updates(t) ==
    /\ runs.pc[t] = "checked"
    /\ domains' = apply_results(domains, runs.results[t], 1, now)
    /\ file' = IF \E k \in 1..Len(domains) : domains[k].url \in DOMAIN runs.results[t]
               THEN save_domains(file, dicts_of(domains'), "ok") ELSE file
    /\ runs' = [runs EXCEPT !.pc[t] = "updated"]
    /\ UNCHANGED <<check_cache, clock>>
    /\ UNCHANGED beside_runs

\* cleanup_invalid_domains()
run_cleans(t) ==
    LET kept == SelectSeq(domains, LAMBDA d : cleanup_keeps(d, default_max_error_count))
    IN  /\ runs.pc[t] = "updated"
        /\ domains' = kept
        /\ file' = IF kept # domains THEN save_domains(file, dicts_of(kept), "ok") ELSE file
        /\ runs' = [runs EXCEPT !.pc[t] = "cleaned"]
        /\ UNCHANGED <<check_cache, clock>>
        /\ UNCHANGED beside_runs

\* sort_domains_by_priority(), and on the monitor thread cleanup_cache()
run_ends(t) ==
    /\ runs.pc[t] = "cleaned"
    /\ domains' = stable_sort(domains)
    /\ file' = save_domains(file, dicts_of(domains'), "ok")
    /\ check_cache' = IF t = "monitor"
                      THEN cleanup_cache_result(check_cache, clock) ELSE check_cache
    /\ runs' = [runs EXCEPT !.pc[t] = "idle", !.results[t] = <<>>]
    /\ UNCHANGED clock
    /\ UNCHANGED beside_runs

\* time passes between the steps of the runs
run_waits ==
    /\ clock + ClockStep <= MaxClock
    /\ clock' = clock + ClockStep
    /\ UNCHANGED <<domains, file, check_cache, runs>>
    /\ UNCHANGED beside_runs

NextRuns ==
    \/ \E t \in RunThreads, probe \in [CheckUrls -> BOOLEAN] : run_checks(t, probe)
    \/ \E t \in RunThreads : run_updates(t)
    \/ \E t \in RunThreads : run_cleans(t)
    \/ \E t \in RunThreads : run_ends(t)
    \/ run_waits

SpecRuns == Init /\ [][NextRuns]_vars

(***************************************************************************)
(* NetworkChecker.find_redirected_domains.  session.get(url) gives a       *)
(* response after zero or more redirects, or raises.  requests sends the   *)
(* prepared url (a url without a path gets the path "/"), so the first url *)
(* of the chain of responses is the prepared url; response.history holds   *)
(* the responses before the last, response.url is the url of the last.     *)
(***************************************************************************)
B_CO == <<"b", ".", "c", "o">>

\* the urls find_redirected_domains is called with
RedirectInputs == { HTTPS \o A_CO, HTTPS \o A_CO \o <<"/", "x">>, HTTP \o A_CO }

\* the urls a redirect can lead to
Hops ==
    { HTTPS \o A_CO, HTTPS \o A_CO \o <<"/">>, HTTPS \o A_CO \o <<"/", "x">>,
      HTTP \o A_CO \o <<"/">>, HTTPS \o B_CO \o <<"/">>, HTTPS \o B_CO \o <<"/", "y">> }

\* PreparedRequest.prepare_url: an empty path becomes "/"
prepare_url(url) ==
    LET p == urlparse(url)
    IN  IF url = p.scheme \o <<":", "/", "/">> \o p.netloc THEN url \o <<"/">> ELSE url

\* the urls of the responses of a request, in order, or <<>> when it raised
Chains(url) ==
    { <<>> } \cup
    { <<prepare_url(url)>> \o hops :
        hops \in UNION { [1..n -> Hops] : n \in 0..MaxHops } }

\* check_domain_detailed: final_url (NoUrl for None) and redirect_chain
check_domain_detailed(url, chain) ==
    [final_url      |-> IF chain = <<>> THEN NoUrl ELSE chain[Len(chain)],
     redirect_chain |-> IF Len(chain) > 1 THEN chain ELSE <<>>]

\* f"{parsed.scheme}://{parsed.netloc}"
scheme_and_netloc(url) ==
    urlparse(url).scheme \o <<":", "/", "/">> \o urlparse(url).netloc

\* the loop over redirect_chain: the domains not seen before and other than url
RECURSIVE chain_domains(_, _, _)
chain_domains(url, redirect_chain, found) ==
    IF redirect_chain = <<>> THEN found
    ELSE LET domain == scheme_and_netloc(Head(redirect_chain))
             seen == {found[k] : k \in 1..Len(found)}
         IN  chain_domains(url, Tail(redirect_chain),
                           IF domain \notin seen /\ domain # url
                           THEN Append(found, domain) ELSE found)

find_redirected_domains(url, chain) ==
    LET detailed_result == check_domain_detailed(url, chain)
        redirected_domains == chain_domains(url, detailed_result.redirect_chain, <<>>)
        final_domain == scheme_and_netloc(detailed_result.final_url)
    IN  IF /\ detailed_result.final_url # NoUrl
           /\ detailed_result.final_url # url
           /\ \A k \in 1..Len(redirected_domains) : redirected_domains[k] # final_domain
        THEN Append(redirected_domains, final_domain)
        ELSE redirected_domains

apply_find_redirected_domains(url, chain) ==
    /\ applied' = [fn |-> "find_redirected_domains",
                   arg |-> [url |-> url, chain |-> chain],
                   ret |-> find_redirected_domains(url, chain)]
    /\ UNCHANGED beside_applied

NextApplied ==
    \/ \E url \in NormalizeInputs : apply_normalize_url(url)
    \/ \E url \in RedirectInputs :
          \E chain \in Chains(url) : apply_find_redirected_domains(url, chain)

SpecApplied == Init /\ [][NextApplied]_vars

(***************************************************************************)
(* Loading.  DataManager.load_domains reads domains.json; what it finds is *)
(*   "as_written"   the file as the last write of the program left it      *)
(*   "missing"      os.path.exists is false: the empty list                *)
(*   "empty"        json.loads("") raises JSONDecodeError: the empty list  *)
(*   "unparseable"  JSONDecodeError or UnicodeDecodeError: the empty list  *)
(*   "unreadable"   open raises an OSError that its except clause does not *)
(*                  name: the call raises                                  *)
(*   "malformed"    the text parses to a list whose items are not          *)
(*                  dictionaries: from_dict raises on the first item       *)
(***************************************************************************)
Found == {"as_written", "missing", "empty", "unparseable", "unreadable", "malformed"}

\* domains.json as the load finds it
on_disk(f, found) ==
    IF found = "as_written" THEN f ELSE [ok |-> FALSE, doc |-> <<>>]

\* DataManager.load_domains: whether it raises, and the list it returns
data_load_domains(f, found) ==
    [raised |-> found = "unreadable",
     data   |-> IF on_disk(f, found).ok THEN on_disk(f, found).doc ELSE <<>>]

\* a load that leaves the store empty when it has found no data
load_result_empty(ds, loaded, found, t) ==
    IF ~ loaded.raised /\ found # "malformed" /\ loaded.data # <<>>
    THEN [i \in 1..Len(loaded.data) |-> from_dict(loaded.data[i], t)]
    ELSE <<>>

\* DomainManager.load_domains: the list of the store after the load.  The
\* list is replaced when there is data (`if data:`); with no data, and when
\* anything raised, _initialize_default_domains appends the defaults to the
\* list as it is
load_result(ds, loaded, found, t) ==
    IF ~ loaded.raised /\ found # "malformed" /\ loaded.data # <<>>
    THEN [i \in 1..Len(loaded.data) |-> from_dict(loaded.data[i], t)]
    ELSE ds \o initialize_default_domains(t)

\* DomainManager.load_domains; it returns False when something raised
load_domains(found, outcome) ==
    LET loaded == data_load_domains(file, found)
        usable == ~ loaded.raised /\ found # "malformed" /\ loaded.data # <<>>
    IN  /\ call = Idle
        /\ UNCHANGED beside_store
        /\ Len(domains) <= max_domains
        /\ domains' = load_result(domains, loaded, found, now)
        /\ IF usable
           THEN outcome = "ok" /\ file' = file
           ELSE file' = save_domains(on_disk(file, found), dicts_of(domains'), outcome)
        /\ call' = Call("load", <<>>, FALSE, "", 0,
                         ~ loaded.raised /\ found # "malformed", found, <<>>)
        /\ Other
        /\ UNCHANGED now

\* DomainManager.save_domains called on its own
persist(outcome) ==
    /\ call = Idle
    /\ UNCHANGED beside_store
    /\ file' = save_domains(file, dicts_of(domains), outcome)
    /\ call' = Call("save", <<>>, FALSE, "", 0, outcome = "ok", "", <<>>)
    /\ UNCHANGED <<domains, now, history>>

(***************************************************************************)
(* The store under any sequential use of its operations.                   *)
(***************************************************************************)
Next ==
    \/ Tick
    \/ Resume
    \/ \E url \in UrlInputs, outcome \in SaveOutcomes : add_domain(url, outcome)
    \/ \E url \in LookupInputs, outcome \in SaveOutcomes : remove_domain(url, outcome)
    \/ \E url \in LookupInputs, is_active \in BOOLEAN, error_msg \in ErrorMsgs,
          outcome \in SaveOutcomes :
            update_domain_status(url, is_active, error_msg, outcome)
    \/ \E max_error_count \in CleanupThresholds, outcome \in SaveOutcomes :
            cleanup_invalid_domains(max_error_count, outcome)
    \/ \E outcome \in SaveOutcomes : sort_domains_by_priority(outcome)
    \/ \E n \in 1..Len(ImportDocs), outcome \in SaveOutcomes : import_domains(n, outcome)
    \/ \E written \in BOOLEAN : export_domains(written)

Spec == Init /\ [][Next]_vars

(***************************************************************************)
(* The store under any sequential use of its operations when every write   *)
(* of domains.json succeeds.                                               *)
(***************************************************************************)
NextSaved ==
    \/ Tick
    \/ Resume
    \/ \E url \in UrlInputs : add_domain(url, "ok")
    \/ \E url \in LookupInputs : remove_domain(url, "ok")
    \/ \E url \in LookupInputs, is_active \in BOOLEAN, error_msg \in ErrorMsgs :
            update_domain_status(url, is_active, error_msg, "ok")
    \/ \E max_error_count \in CleanupThresholds :
            cleanup_invalid_domains(max_error_count, "ok")
    \/ sort_domains_by_priority("ok")
    \/ \E n \in 1..Len(ImportDocs) : import_domains(n, "ok")

SpecSaved == Init /\ [][NextSaved]_vars

(***************************************************************************)
(* The store that is changed, persisted and loaded again.                  *)
(***************************************************************************)
NextLoad ==
    \/ Tick
    \/ Resume
    \/ \E url \in ValidInputs : add_domain(url, "ok")
    \/ \E url \in LookupInputs : remove_domain(url, "ok")
    \/ \E url \in LookupInputs, is_active \in BOOLEAN :
            update_domain_status(url, is_active, IF is_active THEN "" ELSE "timeout", "ok")
    \/ \E outcome \in SaveOutcomes : persist(outcome)
    \/ \E found \in Found, outcome \in SaveOutcomes : load_domains(found, outcome)

SpecLoad == Init /\ [][NextLoad]_vars

(***************************************************************************)
(* Claims.                                                                 *)
(***************************************************************************)

\* C1: the store never holds more than max_domains entities, whatever
\* sequence of add, remove, update_status, cleanup_invalid, sort_by_priority
\* and import is applied to it.
C1_SizeBound == Len(domains) <= max_domains

\* an import cut the list: the store is full and a url of the document that
\* was not in the store is not in it afterwards
C1_Witness ==
    /\ call.op = "import"
    /\ call.n = 4
    /\ call.ok
    /\ Len(domains) = max_domains
    /\ find_domain(domains, HTTPS \o A_CO) = 0

\* C2: no two entities of the store have the same url.
C2_UrlsUnique ==
    \A i, j \in 1..Len(domains) : i # j => domains[i].url # domains[j].url

\* C3: every entity has check_count >= error_count >= 0.
C3_Counters ==
    \A i \in 1..Len(domains) :
        /\ domains[i].check_count >= domains[i].error_count
        /\ domains[i].error_count >= 0

\* an entity that has been checked twice and failed at least once
C3_Witness ==
    /\ call.op = "update_status"
    /\ \E i \in 1..Len(domains) :
          /\ domains[i].check_count >= 2
          /\ domains[i].error_count >= 1

\* the last n elements of s, the last one first
RECURSIVE Reverse(_)
Reverse(s) == IF s = <<>> THEN <<>> ELSE Append(Reverse(Tail(s)), Head(s))

LastReversed(s, n) ==
    Reverse(SubSeq(s, IF Len(s) > n THEN Len(s) - n + 1 ELSE 1, Len(s)))

\* C4: after successful adds of pairwise distinct valid urls u1..un to an
\* empty store, the store holds exactly the last min(n, max_domains) of
\* them, the newest first.
C4_LastAddedFirst ==
    history.pure => urls_of(domains) = LastReversed(history.urls, max_domains)

\* more urls have been added than the store holds
C4_Witness ==
    /\ history.pure
    /\ Len(history.urls) > max_domains

\* the entities of before that are missing after
Evicted(before, after) ==
    {i \in 1..Len(before) : \A j \in 1..Len(after) : after[j] # before[i]}

\* C5: a successful add of a url that is not in a full store removes exactly
\* one entity, one whose added_time is the oldest, and leaves the new entity
\* at index 0.
C5_EvictsOldest ==
    [][ ( /\ call'.op = "add"
          /\ call'.ok
          /\ Len(domains) = max_domains
          /\ find_domain(domains, call'.url) = 0 )
        => /\ Len(domains') = max_domains
           /\ domains'[1].url = normalize_url(call'.url)
           /\ Cardinality(Evicted(domains, domains')) = 1
           /\ \A i \in Evicted(domains, domains'), k \in 1..Len(domains) :
                 domains[i].added_time <= domains[k].added_time ]_vars

\* C6: the entity at index 0 is the one with the latest added_time.
C6_CurrentIsNewest ==
    \A i \in 1..Len(domains) :
        domains[get_current_domain(domains)].added_time >= domains[i].added_time

\* C7: when add(u) returns ok, find(u) returns an entity whose url is
\* normalize(u).
C7_AddThenFind ==
    (call.op = "add" /\ call.ok)
    => /\ find_domain(domains, call.url) # 0
       /\ domains[find_domain(domains, call.url)].url = normalize_url(call.url)

\* an add of a url written with a trailing slash and no scheme succeeded
C7_Witness ==
    /\ call.op = "add"
    /\ call.ok
    /\ call.url = A_CO \o <<"/">>

\* C8: an add that passes validation of a url that is in the store moves its
\* entity to index 0 and sets its added_time to the time of the call; the
\* size of the store, the other fields of the entity, and the order and the
\* fields of the other entities stay as they were.
C8_ReAddMoves ==
    [][ ( /\ call'.op = "add"
          /\ call'.message \in {"added", "save_failed"}
          /\ find_domain(domains, call'.url) # 0 )
        => LET i == find_domain(domains, call'.url)
           IN  /\ Len(domains') = Len(domains)
               /\ domains'[1] = [domains[i] EXCEPT !.added_time = now]
               /\ Tail(domains') = RemoveAt(domains, i) ]_vars

\* an entity with a check history was moved to the front of a store of
\* several entities by an add at a later time
C8_Witness ==
    /\ call.op = "add"
    /\ Len(domains) >= 2
    /\ domains[1].check_count > 0
    /\ domains[1].status # "unknown"
    /\ domains[1].added_time > domains[1].last_check

\* C9: add of a url that fails validation (empty, no host, no dot, a label
\* that does not match, another scheme, an unparsable host, too long)
\* returns (false, reason) and changes neither the store nor the persisted
\* file.
C9_InvalidAddRejected ==
    [][ (call'.op = "add" /\ call'.url \in InvalidInputs)
        => /\ ~ call'.ok
           /\ call'.message \notin {"", "added", "save_failed"}
           /\ domains' = domains
           /\ file' = file ]_vars

\* an add was refused for the missing dot while the file did not hold the store
C9_Witness ==
    /\ call.op = "add"
    /\ ~ call.ok
    /\ call.message = "missing_tld"
    /\ file.doc # dicts_of(domains)

\* C10: update_status(url, true, any message) leaves the entity it finds with
\* error_count = 0 and status = active.
C10_SuccessResets ==
    [][ ( /\ call'.op = "update_status"
          /\ call'.is_active
          /\ find_domain(domains, call'.url) # 0 )
        => LET i == find_domain(domains, call'.url)
           IN  /\ domains'[i].url = domains[i].url
               /\ domains'[i].error_count = 0
               /\ domains'[i].status = "active" ]_vars

\* an entity that had failed was reported active, with an error message given
C10_Witness ==
    /\ call.op = "update_status"
    /\ call.is_active
    /\ call.error_msg # ""
    /\ \E i \in 1..Len(domains) :
          /\ domains[i].url = normalize_url(call.url)
          /\ domains[i].status = "active"
          /\ domains[i].error_count = 0
          /\ domains[i].check_count >= 2

\* C11: update_status(url, false, msg) on an entity of the store adds exactly 1
\* to that entity's error_count and 1 to its check_count, and leaves the
\* check_count, error_count, status and position of every other entity as
\* they were.
C11_FailureCountsOnce ==
    [][ ( /\ call'.op = "update_status"
          /\ ~ call'.is_active
          /\ find_domain(domains, call'.url) # 0 )
        => LET i == find_domain(domains, call'.url)
           IN  /\ Len(domains') = Len(domains)
               /\ domains'[i].url = domains[i].url
               /\ domains'[i].error_count = domains[i].error_count + 1
               /\ domains'[i].check_count = domains[i].check_count + 1
               /\ \A k \in 1..Len(domains) :
                     k # i => /\ domains'[k].url = domains[k].url
                              /\ domains'[k].check_count = domains[k].check_count
                              /\ domains'[k].error_count = domains[k].error_count
                              /\ domains'[k].status = domains[k].status ]_vars

\* a check of an entity failed while another entity of the store had a
\* failed check of its own on record
C11_Witness ==
    /\ call.op = "update_status"
    /\ ~ call.is_active
    /\ \E i, k \in 1..Len(domains) :
          /\ i # k
          /\ domains[i].url = normalize_url(call.url)
          /\ domains[i].error_count >= 1
          /\ domains[k].error_count >= 1
          /\ domains[k].status = "error"

\* C12: when remove(url) finds the entity and the write fails, it returns
\* false and the store in memory is what it was before the call: the same
\* entities in the same order.
C12_RemoveRollback ==
    [][ ( /\ call'.op = "remove"
          /\ find_domain(domains, call'.url) # 0
          /\ ~ call'.ok )
        => domains' = domains ]_vars

\* the j-th smallest element of a set of indices
NthOf(S, j) == CHOOSE i \in S : Cardinality({x \in S : x < i}) = j - 1

\* the elements of s at the indices of S, in the order of s
Pick(s, S) == [j \in 1..Cardinality(S) |-> s[NthOf(S, j)]]

\* C13: cleanup_invalid(k) removes exactly the entities with error_count >= k
\* and returns exactly their urls; afterwards no entity has error_count >= k,
\* the entities that stay keep their order and their fields, and the store is
\* saved if and only if an entity was removed (a save that succeeds leaves
\* the file holding the new store; without a save the file is untouched).
C13_CleanupExact ==
    [][ call'.op = "cleanup_invalid"
        => LET k == call'.n
               gone == {i \in 1..Len(domains) : domains[i].error_count >= k}
               stay == (1..Len(domains)) \ gone
           IN  /\ domains' = Pick(domains, stay)
               /\ call'.urls = urls_of(Pick(domains, gone))
               /\ \A j \in 1..Len(domains') : domains'[j].error_count < k
               /\ (gone = {}) <=> (call'.message = "")
               /\ gone = {} => file' = file
               /\ call'.message = "saved"
                    => file' = [ok |-> TRUE, doc |-> dicts_of(domains')] ]_vars

\* a cleanup removed an entity whose error_count was the threshold and kept
\* another that had failed less often, and the save succeeded
C13_Witness ==
    /\ call.op = "cleanup_invalid"
    /\ call.n = 2
    /\ call.message = "saved"
    /\ Len(call.urls) = 1
    /\ Len(domains) = 1
    /\ domains[1].error_count = 1

\* the rank the claim gives a status
StatusRank(status) ==
    CASE status = "active"   -> 0
      [] status = "unknown"  -> 1
      [] status = "inactive" -> 2
      [] status = "error"    -> 3

\* C14: after sort_by_priority the store is a permutation of what it was (no
\* entity added, dropped or modified), ordered by status rank active <
\* unknown < inactive < error and, within a rank, newest added_time first;
\* entities that tie on both keep their relative order.
C14_SortOrder ==
    [][ call'.op = "sort_by_priority"
        => /\ Len(domains') = Len(domains)
           /\ \E p \in Permutations(1..Len(domains)) :
                 /\ \A j \in 1..Len(domains) : domains'[j] = domains[p[j]]
                 /\ \A j, k \in 1..Len(domains) :
                       j < k =>
                         LET a == domains'[j]
                             b == domains'[k]
                         IN  \/ StatusRank(a.status) < StatusRank(b.status)
                             \/ /\ StatusRank(a.status) = StatusRank(b.status)
                                /\ a.added_time > b.added_time
                             \/ /\ StatusRank(a.status) = StatusRank(b.status)
                                /\ a.added_time = b.added_time
                                /\ p[j] < p[k] ]_vars

\* a sort moved an active entity from behind an error entity to the front
C14_Witness ==
    /\ call.op = "sort_by_priority"
    /\ Len(domains) >= 2
    /\ domains[1].status = "active"
    /\ domains[1].added_time < domains[2].added_time
    /\ domains[2].status = "error"

\* the store import_domains leaves when it is given the document in an empty
\* store: a document it cannot read leaves the store empty
Reimported(doc, t) ==
    IF doc.readable /\ doc.has_domains
    THEN import_domains_result(<<>>, doc.domains, t)
    ELSE <<>>

\* ds holds, for every entity of es, an entity with its url, status,
\* check_count and error_count
Covers(ds, es) ==
    \A i \in 1..Len(es) : \E j \in 1..Len(ds) :
        /\ ds[j].url = es[i].url
        /\ ds[j].status = es[i].status
        /\ ds[j].check_count = es[i].check_count
        /\ ds[j].error_count = es[i].error_count

\* C15: export of the store (the write of the export file not failing)
\* followed by import of what export left at the path into an empty store
\* gives a store with the same set of urls and, for each url, the same
\* status, check_count and error_count.
C15_ExportImportRoundTrip ==
    call.op = "export"
    => LET back == Reimported(export_document(domains, TRUE), now)
       IN  /\ Covers(back, domains)
           /\ Covers(domains, back)

\* what the claim says import makes of the store ds: an entry whose url is
\* in the store is skipped, a new one is appended
RECURSIVE MergeNew(_, _, _)
MergeNew(ds, entries, t) ==
    IF entries = <<>> THEN ds
    ELSE LET e == Head(entries)
         IN  IF e.raises THEN MergeNew(ds, Tail(entries), t)
             ELSE IF \E k \in 1..Len(ds) : ds[k].url = normalize_url(e.url)
                  THEN MergeNew(ds, Tail(entries), t)
                  ELSE MergeNew(Append(ds, from_dict(e, t)), Tail(entries), t)

\* C16: import leaves the entities of the store where and as they were,
\* skips the entries of the document whose url is in the store, appends the
\* new ones behind the store in the order of the document, and cuts the
\* result to the first max_domains entities.
C16_ImportMerges ==
    [][ (call'.op = "import" /\ call'.ok)
        => /\ Len(domains') >= Len(domains)
           /\ SubSeq(domains', 1, Len(domains)) = domains
           /\ domains' = Take(MergeNew(domains, ImportDocs[call'.n].domains, now),
                              max_domains) ]_vars

\* thread 0, which calls check_domain_simple again for the url of its last
\* call, consults the cache in this step, less than cache_duration after the
\* result of that last call was cached
Repeats ==
    /\ threads[0].pc = "reading"
    /\ threads'[0].pc # "reading"
    /\ done.url = threads[0].url
    /\ clock - done.timestamp < cache_duration

\* C17 as stated: a call of check_simple(url) made less than the TTL after
\* the result of an earlier, returned call for the url was cached issues no
\* probe (the two calls issue at most one between them) and returns the
\* boolean the earlier call returned.
C17_RepeatReturnsSame ==
    [][ Repeats => /\ threads'[0].pc = "returned"
                   /\ ~ threads'[0].probed
                   /\ threads'[0].ret.is_accessible = done.result ]_vars

\* C17 amended: such a call issues no probe and returns the boolean the
\* cache holds for the url when it is called; this is the boolean the
\* earlier call returned unless a call of another thread has written the
\* cache entry of the url since the earlier call returned.
C17_RepeatServedFromCache ==
    [][ Repeats => /\ threads'[0].pc = "returned"
                   /\ ~ threads'[0].probed
                   /\ threads'[0].ret.is_accessible = check_cache[done.url].result
                   /\ done.fresh => threads'[0].ret.is_accessible = done.result ]_vars

\* thread 0 has been answered from a cache entry that is half the TTL old,
\* the entry its previous call had left
C17_Witness ==
    /\ threads[0].pc = "returned"
    /\ threads[0].ret.message = "cached"
    /\ threads[0].ret.is_accessible
    /\ done.url = threads[0].url
    /\ clock - done.timestamp = ClockStep
    /\ calls = 2
    /\ many.pc = "idle"

FailureKinds == {"timeout", "connection_error", "request_exception", "exception"}

\* C18: check_simple never raises: whatever the probe does (a response with
\* any status code, a timeout, a connection error, another request
\* exception, an unexpected exception) the call returns a triple, and for the
\* four failures the triple is (false, a non-empty message, null).
C18_NeverRaises ==
    \A t \in Threads :
        threads[t].outcome # ""
        => /\ threads[t].pc = "returned"
           /\ threads[t].ret.is_accessible \in BOOLEAN
           /\ threads[t].ret.message # ""
           /\ threads[t].outcome \in FailureKinds
                => /\ ~ threads[t].ret.is_accessible
                   /\ threads[t].ret.final_url = NoUrl

\* a direct call has returned from the KeyError of a cache entry purged
\* under it, and a call of a pool worker from a probe that timed out
C18_Witness ==
    /\ threads[0].outcome = "exception"
    /\ ~ threads[0].probed
    /\ \E w \in Workers : threads[w].outcome = "timeout"

\* the set of urls of a list of entities
UrlSet(input) == {input[i] : i \in 1..Len(input)}

\* C19: check_many returns a mapping with exactly one key per url of its
\* input, each mapped to (bool, message), whatever the probes do and also
\* when futures raise; an empty input gives an empty mapping; and a result
\* once stored is neither changed nor removed by what happens to another url.
C19_CompleteMapping ==
    [][ /\ many'.pc = "returned"
           => /\ DOMAIN many'.results = UrlSet(many'.domains)
              /\ \A u \in DOMAIN many'.results :
                    /\ many'.results[u][1] \in BOOLEAN
                    /\ many'.results[u][2] # ""
        /\ (many.pc = "collecting" /\ many'.pc \in {"collecting", "returned"})
           => \A u \in DOMAIN many.results :
                 /\ u \in DOMAIN many'.results
                 /\ many'.results[u] = many.results[u] ]_vars

\* check_many has returned a mapping for two entities of which one future
\* raised and the other probe got a response
C19_Witness ==
    /\ many.pc = "returned"
    /\ Len(many.domains) = 2
    /\ many.results[many.domains[1]] = <<FALSE, "check_exception">>
    /\ many.results[many.domains[2]][1]

\* C20: after any sequence of start_monitoring and stop_monitoring calls at
\* most one thread runs the monitor loop: no two threads are inside an
\* iteration at the same time.
C20_SingleLoop ==
    Cardinality({i \in 1..MaxThreads : loops[i] = "iterating"}) <= 1

\* C21: once stop_monitoring has cleared the flag and start_monitoring is not
\* called afterwards, every loop thread eventually exits; a thread that finds
\* the flag cleared at its test exits there and never iterates again.
C21_StopHonoured ==
    /\ \A i \in 1..MaxThreads :
           (~ is_monitoring /\ Alive(i)) ~> (is_monitoring \/ loops[i] = "exited")
    /\ [][\A i \in 1..MaxThreads :
             /\ (loops[i] = "testing" /\ ~ is_monitoring /\ loops'[i] # loops[i])
                    => loops'[i] = "exited"
             /\ loops[i] = "exited" => loops'[i] = "exited"
        ]_vars

\* stop_monitoring has returned after a join that timed out or succeeded and
\* the loop thread has exited
C21_Witness ==
    /\ ctl = "stopped"
    /\ ~ is_monitoring
    /\ monitor_thread # 0
    /\ loops[monitor_thread] = "exited"

\* C22: an exception raised inside an iteration never ends the loop: the
\* thread leaves the iteration for the back-off sleep, and while the flag
\* stays set another iteration eventually begins.
C22_SurvivesFailure ==
    /\ [][\A i \in 1..MaxThreads :
             (loops[i] = "iterating" /\ loops'[i] # loops[i])
                => loops'[i] \in {"sleeping", "backing_off"}
        ]_vars
    /\ \A i \in 1..MaxThreads :
           loops[i] = "backing_off" ~> (loops[i] = "iterating" \/ ~ is_monitoring)

\* an iteration has raised and its thread waits the back-off with the flag set
C22_Witness ==
    \E i \in 1..MaxThreads : loops[i] = "backing_off" /\ is_monitoring

IsPrefix(s, t) == Len(s) <= Len(t) /\ SubSeq(t, 1, Len(s)) = s

ShutdownSteps == <<"health", "monitor", "persist", "destroy", "exit">>

Position(step) == CHOOSE j \in 1..Len(ShutdownSteps) : ShutdownSteps[j] = step

C24_OrderlyShutdown ==
    /\ [](/\ IsPrefix(sd.trace, ShutdownSteps)
          /\ sd.pc \in {"persist", "destroy", "exit", "exited"} => ~ is_monitoring
          /\ sd.pc = "exited" => sd.trace = ShutdownSteps
          /\ \A step \in sd.raised :
                 Position(step) <= Len(sd.trace) /\ sd.trace[Position(step)] = step)
    /\ (sd.pc # "running") ~> (sd.pc = "exited")

\* the process has exited after a shutdown in which the stop of the health
\* checker and the stop of the monitor raised: the store has been written
C24_Witness ==
    /\ sd.pc = "exited"
    /\ {"health", "monitor"} \subseteq sd.raised
    /\ sd.trace = ShutdownSteps
    /\ monitor_thread # 0
    /\ file = [ok |-> TRUE, doc |-> dicts_of(domains)]

\* C25: a monitor iteration that finds the store non-empty takes its steps in
\* this order: check_many over the fetched entities, update_status for every
\* entity that has a result, cleanup_invalid, sort_by_priority, the cache
\* purge, the sleep; cleanup and sort come after all the results have been
\* applied.  An iteration that finds the store empty changes neither the
\* store nor the file.
StepsInOrder(n) ==
    <<"check_many">> \o [j \in 1..n |-> "update_status"]
    \o <<"cleanup_invalid", "sort_by_priority", "cache_purge", "sleep">>

Raised(trace) == trace # <<>> /\ trace[Len(trace)] = "backoff"

C25_IterationOrder ==
    LET done_steps == IF Raised(iter.trace)
                      THEN SubSeq(iter.trace, 1, Len(iter.trace) - 1)
                      ELSE iter.trace
    IN  IF iter.fetched = 0
        THEN /\ iter.trace \in {<<>>, <<"sleep">>}
             /\ iter.pc # "idle" => domains = <<>> /\ file = iter.file
        ELSE /\ IsPrefix(done_steps, StepsInOrder(iter.expected))
             /\ Raised(iter.trace) =>
                    Len(done_steps) < Len(StepsInOrder(iter.expected))
             /\ (iter.pc = "cleanup_invalid" /\ call = Idle) =>
                    TotalChecks(domains) = iter.checks + iter.expected

\* an iteration over two entities has taken all its steps
C25_Witness ==
    /\ iter.fetched = 2
    /\ iter.trace = StepsInOrder(2)
    /\ TotalChecks(domains) = iter.checks + 2

\* an iteration has found the store empty and has gone to sleep
C25_WitnessEmpty ==
    /\ iter.fetched = 0
    /\ iter.trace = <<"sleep">>
    /\ domains = <<>>

\* C26: the store is never changed, and domains.json never written, by two
\* threads at the same time: at most one of the monitor thread, the check
\* thread and the add thread is inside an operation of the store.
C26_SingleWriter ==
    Cardinality({t \in StoreThreads : writers[t].pc # "outside"}) <= 1

\* C27: while every write of domains.json succeeds, after each completed add,
\* remove, update_status, cleanup_invalid, sort_by_priority or import the
\* persisted document is the in-memory store: the same entities in the same
\* order with the same field values.
Mutators ==
    {"add", "remove", "update_status", "cleanup_invalid", "sort_by_priority", "import"}

C27_PersistedEqualsStore ==
    call.op \in Mutators => file = [ok |-> TRUE, doc |-> dicts_of(domains)]

\* each kind of mutation has just completed, having changed the store: an
\* update that counted a failure, and a cleanup that removed an entity
C27_Witness ==
    /\ call.op = "cleanup_invalid"
    /\ call.urls # <<>>
    /\ domains # <<>>
    /\ \E i \in 1..Len(domains) : domains[i].check_count > 0
    /\ file = [ok |-> TRUE, doc |-> dicts_of(domains)]

\* C28: an add that returns ok = false because the write failed, and an
\* update_status that returns false because the write failed, leave the
\* in-memory store as it was before the call: the same entities in the same
\* order with the same status, check_count, error_count and added_time.
PersistFailed ==
    \/ call'.op = "add" /\ call'.message = "save_failed"
    \/ /\ call'.op = "update_status"
       /\ ~ call'.ok
       /\ find_domain(domains, call'.url) # 0

C28_FailureLeavesStore ==
    [][(call = Idle /\ PersistFailed) => domains' = domains]_vars

\* C29: a check_domain_simple call that is not served from the cache writes
\* the boolean it returns into cache[url], stamped with the time of the write,
\* before it returns (false after a timeout, a connection error, a request
\* exception and any other exception); a call served from the cache leaves
\* the cache as it is.
C29_MissWritesResult ==
    [][\A t \in Threads :
         (threads[t].pc # "returned" /\ threads'[t].pc = "returned") =>
            LET url == threads'[t].url
                ret == threads'[t].ret
            IN  IF threads'[t].outcome = "cached"
                THEN check_cache' = check_cache
                ELSE /\ url \in DOMAIN check_cache'
                     /\ check_cache'[url] =
                            [result |-> ret.is_accessible, timestamp |-> clock]
                     /\ threads'[t].outcome \in FailureKinds =>
                            ~ check_cache'[url].result
                     /\ \A u \in (DOMAIN check_cache) \ {url} :
                            u \in DOMAIN check_cache' /\ check_cache'[u] = check_cache[u]
      ]_vars

\* a call has just returned after a timeout, later than the time to live, and
\* the entry holds false and the time of the write
C29_Witness ==
    \E t \in Threads :
        /\ threads[t].pc = "returned"
        /\ threads[t].outcome = "timeout"
        /\ clock > cache_duration
        /\ check_cache[threads[t].url] = [result |-> FALSE, timestamp |-> clock]

\* C30: cleanup_cache removes exactly the expired entries: right after it every
\* entry left in the cache is one check_domain_simple would serve (its age is
\* below cache_duration) and no entry it removed was one; an entry whose age
\* is exactly cache_duration included.
Purged == (DOMAIN check_cache') \subseteq (DOMAIN check_cache)
          /\ DOMAIN check_cache' # DOMAIN check_cache

C30_PurgeExact ==
    [][Purged =>
          /\ \A url \in DOMAIN check_cache' :
                 is_cache_valid(check_cache', url, clock)
          /\ \A url \in (DOMAIN check_cache) \ (DOMAIN check_cache') :
                 ~ is_cache_valid(check_cache, url, clock)
      ]_vars

\* the threads whose probe of url is in flight
Probing(url) == {t \in Threads : threads[t].pc = "probing" /\ threads[t].url = url}

\* C31 as stated: two threads that call check_simple for the same url at
\* overlapping times share one probe: at no time are two probes of one url in
\* flight.
C31_OneProbeInFlight ==
    \A url \in CheckUrls : Cardinality(Probing(url)) <= 1

\* C31 amended: a thread issues a probe of a url only when, at the moment it
\* consults the cache, the cache holds no entry for the url younger than the
\* time to live: once the result of one caller is cached, the other callers
\* that consult the cache within the time to live issue no probe.
C31_ProbeOnlyOnMiss ==
    [][\A t \in Threads :
         (threads[t].pc # "probing" /\ threads'[t].pc = "probing") =>
            LET url == threads'[t].url
            IN  ~ (/\ url \in DOMAIN check_cache
                   /\ clock - check_cache[url].timestamp < cache_duration)
      ]_vars

\* a worker has probed a url and cached the result, and thread 0, whose call
\* for the same url is not over either, has been served from the cache half
\* the time to live later
C31_Witness ==
    \E w \in Workers :
        /\ threads[w].pc = "returned"
        /\ threads[w].probed
        /\ threads[0].pc = "returned"
        /\ threads[0].url = threads[w].url
        /\ threads[0].outcome = "cached"
        /\ ~ threads[0].probed
        /\ clock - check_cache[threads[0].url].timestamp = ClockStep

\* this step is a load that finds domains.json missing, empty or unparseable
\* (a file a failed write has truncated is one)
LoadsNoData ==
    /\ call = Idle
    /\ call'.op = "load"
    /\ \/ call'.message \in {"missing", "empty", "unparseable"}
       \/ call'.message = "as_written" /\ ~ file.ok

Reloaded(ds, f, t) ==
    load_result(ds, data_load_domains(f, "as_written"), "as_written", t)

\* the file after that load when the write of the defaults, if there is
\* one, succeeds
RewrittenBy(ds, f, t) ==
    IF data_load_domains(f, "as_written").data # <<>>
    THEN f
    ELSE save_domains(f, dicts_of(Reloaded(ds, f, t)), "ok")

\* C33: for every store the operations reach (the empty store included), once
\* the store has been persisted, a reload gives the same ordered list of
\* entities with the same field values, and a second reload gives what the
\* first gave.
C33_RoundTrip ==
    file = [ok |-> TRUE, doc |-> dicts_of(domains)] =>
        LET once  == Reloaded(domains, file, now)
            twice == Reloaded(once, RewrittenBy(domains, file, now), now)
        IN  /\ once = domains
            /\ twice = once

\* C34: find_redirected(url) returns a list with no duplicates that never
\* contains the input url, for every chain of redirects and every final url
\* (a final url on the scheme and host of the input with another path
\* included).
C34_NoDuplicateNoInput ==
    applied.fn = "find_redirected_domains" =>
        LET ret == applied.ret
        IN  /\ \A i, j \in 1..Len(ret) : i # j => ret[i] # ret[j]
            /\ \A i \in 1..Len(ret) : ret[i] # applied.arg.url

\* the indices of the entities of url u
Holding(ds, u) == {i \in 1..Len(ds) : ds[i].url = u}

\* the check_count of the one entity of url u
CountOf(ds, u) == ds[CHOOSE i \in Holding(ds, u) : TRUE].check_count

\* this step is an update_status that has found the entity of url u
UpdatesStatusOf(u) ==
    /\ call = Idle
    /\ call'.op = "update_status"
    /\ find_domain(domains, call'.url) # 0
    /\ domains[find_domain(domains, call'.url)].url = u

\* C35: while an entity stays in the store its check_count never decreases:
\* an update_status applied to it adds exactly 1, and every other step
\* (re-adding its url, sort_by_priority, import, cleanup or removal of other
\* entities, whether or not the write succeeds) leaves it as it is.
C35_CheckCountMonotonic ==
    [][\A u \in {domains[i].url : i \in 1..Len(domains)} :
          (Cardinality(Holding(domains, u)) = 1 /\ Cardinality(Holding(domains', u)) = 1)
          => CountOf(domains', u) =
                 IF UpdatesStatusOf(u) THEN CountOf(domains, u) + 1 ELSE CountOf(domains, u)
      ]_vars

\* an entity that has been checked has been re-added: it is first in the
\* store with its check_count, another entity has been checked too
C35_Witness ==
    /\ call.op = "add"
    /\ call.ok
    /\ Len(domains) = 2
    /\ domains[1].url = normalize_url(call.url)
    /\ domains[1].check_count = 1
    /\ domains[1].added_time = MaxTime
    /\ domains[2].check_count = 1

\* the urls of the entities this step of a run removes
RemovedByRun ==
    IF \E t \in RunThreads : runs.pc[t] = "updated" /\ runs'.pc[t] = "cleaned"
    THEN {domains[k].url : k \in 1..Len(domains)} \
         {domains'[k].url : k \in 1..Len(domains')}
    ELSE {}

\* the urls for which this step of a run applies a failure served from the
\* cache
CachedFailures ==
    UNION { {u \in DOMAIN runs.results[t] :
                /\ runs.results[t][u].message = "cached"
                /\ ~ runs.results[t][u].is_accessible} :
            t \in {r \in RunThreads : runs.pc[r] = "checked" /\ runs'.pc[r] = "updated"} }

\* C36: under any interleaving of monitor iterations and check-all runs, an
\* entity is removed by cleanup_invalid (threshold 5) only after at least 5
\* network probes of its url have failed in a row since the last that
\* succeeded, and a failure served from the cache does not raise error_count.
C36_RemovalNeedsProbes ==
    [][/\ \A u \in RemovedByRun : runs.failed[u] >= default_max_error_count
       /\ \A u \in CachedFailures :
              \A k \in 1..Len(domains) :
                  domains[k].url = u => domains'[k].error_count = domains[k].error_count
      ]_vars

\* C37: under every interleaving of two add calls for one url made by
\* different threads, whenever no add is in progress the store holds no two
\* entities of the same url and at most max_domains entities.
C37_UniqueUnderConcurrency ==
    (\A t \in AddThreads : writers[t].pc = "outside") =>
        /\ \A i, j \in 1..Len(domains) : i # j => domains[i].url # domains[j].url
        /\ Len(domains) <= max_domains

\* stop_monitoring has been called on a started monitor and has returned
StopReturned ==
    /\ monitor_thread # 0
    /\ ~ is_monitoring
    /\ ctl # "joining"

\* C38: once stop_monitoring has returned, the monitor thread applies no
\* update_status, cleanup_invalid or sort_by_priority to the store and does
\* not write the persisted file: no step taken inside _check_all_domains
\* changes the store or the file.
C38_QuietAfterStop ==
    [][StopReturned /\ iter.pc # "idle" => domains' = domains /\ file' = file]_vars

====
